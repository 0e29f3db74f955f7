----------------------------- MODULE LineageProofs -----------------------------
(* What holds of the lineage search for any catalog, any depth limit and any  *)
(* number of commits during the search.                                       *)
EXTENDS MetadataReads, SequenceTheorems, NaturalsLemmas

Elements(q) == {q[n] : n \in DOMAIN q}

Distinct(q) == \A m, n \in DOMAIN q : q[m] = q[n] => m = n

\* The queue holds assets that were found, each once.
Queue == Elements(frontier) \subseteq visited /\ Distinct(frontier)

Views == steady \subseteq view /\ view \subseteq met

\* The rows the loop still has to look at are edges already.
Todo == \A d \in todo : From(d) = current /\ listed[d] = 1 /\ depth[current] < MaxDepth

\* The edges so far: one for each row of an asset that left the queue.
Edges ==
    \A d \in Deps : listed[d] # 0 =>
        /\ listed[d] = 1 /\ d \in met
        /\ From(d) \in visited \ Elements(frontier)
        /\ To(d) \in visited \/ d \in todo

Expanded ==
    \A d \in steady :
        From(d) \in visited \ Elements(frontier) /\ depth[From(d)] < MaxDepth => listed[d] = 1

Finished == pc = "answered" => todo = {} /\ frontier = <<>>

LineageInv ==
    /\ LineageTypeOK /\ root \in visited /\ current \in visited
    /\ Queue /\ Views /\ Todo /\ Edges /\ Expanded /\ Finished /\ NodesExplained

\* The search proceeds by distance: the queue is sorted, and what was found so
\* far is at most one row further away than the asset that is being expanded.
Sorted(q, far) == \A m, n \in DOMAIN q : m <= n => far[q[m]] <= far[q[n]]

Layers ==
    /\ depth[root] = 0
    /\ Sorted(frontier, depth)
    /\ \A a \in Elements(frontier) : depth[current] <= depth[a]
    /\ \A a \in visited : depth[a] <= depth[current] + 1

\* A row that was followed leads at most one row further.
Followed == \A d \in Deps \ todo : listed[d] # 0 => depth[To(d)] <= depth[From(d)] + 1

LayersInv == LineageInv /\ Layers /\ Followed

\* The answer about the APIs comes from the impacts on record, or from a search
\* that is over.
Derived ==
    kind = "impacted_apis" /\ stage = "done" =>
        \/ Settled(explicit) /\ apis = explicit \cap Apis
        \/ pc = "answered" /\ apis = visited \cap Apis

-----------------------------------------------------------------------------
\* Taking the head of a queue without repetition takes it out of the queue.
LEMMA TakeHead ==
    ASSUME NEW S, NEW q \in Seq(S), q # <<>>, Distinct(q)
    PROVE  /\ Head(q) \in S /\ Head(q) \in Elements(q)
           /\ Tail(q) \in Seq(S) /\ Distinct(Tail(q))
           /\ Elements(Tail(q)) = Elements(q) \ {Head(q)}
  <1>1. /\ Head(q) = q[1] /\ Tail(q) \in Seq(S) /\ Len(q) \in Nat \ {0}
        /\ DOMAIN q = 1..Len(q) /\ DOMAIN Tail(q) = 1..(Len(q) - 1)
        /\ \A n \in 1..(Len(q) - 1) : Tail(q)[n] = q[n + 1]
    BY HeadTailProperties
  <1>2. Head(q) \in S /\ Head(q) \in Elements(q)
    BY <1>1 DEF Elements
  <1>3. Distinct(Tail(q))
    BY <1>1 DEF Distinct
  <1>4. ASSUME NEW x \in Elements(Tail(q)) PROVE x \in Elements(q) \ {Head(q)}
    <2>1. PICK n \in 1..(Len(q) - 1) : x = q[n + 1]
      BY <1>1 DEF Elements
    <2>2. n + 1 \in DOMAIN q /\ n + 1 # 1 /\ 1 \in DOMAIN q
      BY <1>1
    <2> QED
      BY <1>1, <2>1, <2>2 DEF Elements, Distinct
  <1>5. ASSUME NEW x \in Elements(q) \ {Head(q)} PROVE x \in Elements(Tail(q))
    <2>1. PICK n \in 1..Len(q) : x = q[n]
      BY <1>1 DEF Elements
    <2>2. n # 1
      BY <1>1, <2>1
    <2>3. n - 1 \in 1..(Len(q) - 1) /\ (n - 1) + 1 = n
      BY <1>1, <2>2
    <2>4. Tail(q)[n - 1] = x
      BY <1>1, <2>1, <2>3
    <2> QED
      BY <1>1, <2>3, <2>4 DEF Elements
  <1> QED
    BY <1>1, <1>2, <1>3, <1>4, <1>5

\* Adding an element to a queue.
LEMMA AddLast ==
    ASSUME NEW S, NEW q \in Seq(S), NEW a \in S, Distinct(q), a \notin Elements(q)
    PROVE  /\ Append(q, a) \in Seq(S) /\ Distinct(Append(q, a))
           /\ Elements(Append(q, a)) = Elements(q) \cup {a}
  <1> DEFINE r == Append(q, a)
  <1>1. /\ r \in Seq(S) /\ Len(q) \in Nat
        /\ DOMAIN q = 1..Len(q) /\ DOMAIN r = 1..(Len(q) + 1)
        /\ \A n \in 1..Len(q) : r[n] = q[n]
        /\ r[Len(q) + 1] = a
    BY AppendProperties
  <1> HIDE DEF r
  <1>2. ASSUME NEW n \in DOMAIN r PROVE n \in DOMAIN q \/ n = Len(q) + 1
    BY <1>1
  <1>3. Distinct(r)
    BY <1>1, <1>2 DEF Distinct, Elements
  <1>4. Elements(r) = Elements(q) \cup {a}
    <2>1. Len(q) + 1 \in DOMAIN r /\ \A n \in DOMAIN q : n \in DOMAIN r
      BY <1>1
    <2> QED
      BY <1>1, <1>2, <2>1 DEF Elements
  <1> QED
    BY <1>1, <1>3, <1>4 DEF r

\* An edge leads from an asset to an asset.
LEMMA Ends ==
    ASSUME NEW d \in Deps
    PROVE  From(d) \in Assets /\ To(d) \in Assets
  BY LineageAssumption DEF From, To

\* The search starts at the root.
LEMMA LineageInitInv == LineageInit => LineageInv
  <1> SUFFICES ASSUME LineageInit PROVE LineageInv
    OBVIOUS
  <1>1. /\ isolated \in BOOLEAN /\ active \in Contents /\ commits = 0
        /\ view = active /\ steady = active /\ met = active
        /\ pc = "searching" /\ direction \in {"downstream", "upstream"}
        /\ visited = {root} /\ frontier = <<root>> /\ current = root /\ todo = {}
        /\ depth = [b \in Assets |-> 0] /\ listed = [d \in Deps |-> 0]
    BY DEF LineageInit
  <1>2. root \in Assets
    BY DEF LineageInit, Matches
  <1>3. LineageTypeOK
    BY <1>1, <1>2, LineageAssumption DEF LineageTypeOK
  <1>4. Elements(frontier) = {root} /\ Distinct(frontier)
    BY <1>1 DEF Elements, Distinct
  <1>5. Queue /\ Views /\ Todo /\ Finished
    BY <1>1, <1>4 DEF Queue, Views, Todo, Finished
  <1>6. Edges /\ Expanded /\ NodesExplained
    BY <1>1, <1>4 DEF Edges, Expanded, NodesExplained
  <1> QED
    BY <1>1, <1>3, <1>5, <1>6 DEF LineageInv

\* Another commit shrinks what all views have and extends what some view has.
LEMMA CommitKeeps ==
    ASSUME LineageInv, Commit, UNCHANGED isolated
    PROVE  LineageInv'
  <1>1. /\ commits < MaxCommits /\ commits' = commits + 1 /\ active' \in Contents
        /\ view' = view \/ view' = active'
        /\ steady' = steady \cap view' /\ met' = met \cup view'
        /\ UNCHANGED <<root, direction, pc, visited, depth, frontier, current, todo, listed>>
    BY DEF Commit, AfterCommit, requestVars, searchVars
  <1>2. active' \subseteq Deps /\ commits' \in 0..MaxCommits
    BY <1>1, LineageAssumption DEF LineageInv, LineageTypeOK
  <1>3. LineageTypeOK'
    BY <1>1, <1>2 DEF LineageInv, LineageTypeOK
  <1>4. (Queue /\ Views /\ Finished)'
    BY <1>1 DEF LineageInv, Queue, Views, Finished, Elements, Distinct
  <1>5. ASSUME NEW d \in Deps PROVE From(d)' = From(d) /\ To(d)' = To(d)
    BY <1>1 DEF From, To
  <1>6. (Todo /\ Edges)'
    BY <1>1, <1>5 DEF LineageInv, LineageTypeOK, Todo, Edges, Elements
  <1>7. (Expanded /\ NodesExplained)'
    BY <1>1, <1>5 DEF LineageInv, LineageTypeOK, Expanded, NodesExplained, Elements
  <1> QED
    BY <1>1, <1>3, <1>4, <1>6, <1>7 DEF LineageInv

\* An asset at the depth limit leaves the queue.
LEMMA SkipKeeps ==
    ASSUME LineageInv, Skip, UNCHANGED isolated
    PROVE  LineageInv'
  <1> DEFINE a == Head(frontier)
  <1>1. /\ pc = "searching" /\ todo = {} /\ frontier # <<>> /\ depth[a] = MaxDepth
        /\ frontier' = Tail(frontier)
        /\ UNCHANGED <<active, commits, view, steady, met, root, direction, pc, visited, depth,
                       current, todo, listed>>
    BY DEF Skip, Idle, Deep, tableVars, requestVars
  <1>2. /\ a \in Assets /\ a \in Elements(frontier)
        /\ frontier' \in Seq(Assets) /\ Distinct(frontier')
        /\ Elements(frontier') = Elements(frontier) \ {a}
    BY <1>1, TakeHead DEF LineageInv, LineageTypeOK, Queue
  <1>3. LineageTypeOK'
    BY <1>1, <1>2 DEF LineageInv, LineageTypeOK
  <1>4. (Queue /\ Views /\ Finished)'
    BY <1>1, <1>2 DEF LineageInv, Queue, Views, Finished
  <1>5. ASSUME NEW d \in Deps PROVE From(d)' = From(d) /\ To(d)' = To(d)
    BY <1>1 DEF From, To
  <1>6. (Todo /\ Edges)'
    BY <1>1, <1>2, <1>5 DEF LineageInv, LineageTypeOK, Todo, Edges
  <1>7. Expanded'
    BY <1>1, <1>2, <1>5 DEF LineageInv, LineageTypeOK, Expanded
  <1>8. NodesExplained'
    BY <1>1, <1>5 DEF LineageInv, NodesExplained
  <1> QED
    BY <1>1, <1>3, <1>4, <1>6, <1>7, <1>8 DEF LineageInv

\* The rows of the asset that leaves the queue become edges.
LEMMA FetchKeeps ==
    ASSUME LineageInv, Fetch, UNCHANGED isolated
    PROVE  LineageInv'
  <1> DEFINE a == Head(frontier)
  <1>1. /\ pc = "searching" /\ todo = {} /\ frontier # <<>> /\ depth[a] # MaxDepth
        /\ frontier' = Tail(frontier) /\ current' = a /\ todo' = Rows(a)
        /\ listed' = [d \in Deps |-> IF d \in Rows(a) THEN listed[d] + 1 ELSE listed[d]]
        /\ UNCHANGED <<active, commits, view, steady, met, root, direction, pc, visited, depth>>
    BY DEF Fetch, Idle, Deep, tableVars, requestVars
  <1>2. /\ a \in Assets /\ a \in Elements(frontier)
        /\ frontier' \in Seq(Assets) /\ Distinct(frontier')
        /\ Elements(frontier') = Elements(frontier) \ {a}
    BY <1>1, TakeHead DEF LineageInv, LineageTypeOK, Queue
  <1>3. a \in visited /\ depth[a] < MaxDepth
    BY <1>1, <1>2, LineageAssumption DEF LineageInv, LineageTypeOK, Queue
  <1>4. \A d \in Rows(a) : d \in Deps /\ From(d) = a /\ d \in met
    BY DEF Rows, LineageInv, LineageTypeOK, Views
  <1>5. \A d \in Rows(a) : listed[d] = 0 /\ listed'[d] = 1
    BY <1>1, <1>2, <1>4 DEF LineageInv, LineageTypeOK, Edges
  <1>6. \A d \in Deps \ Rows(a) : listed'[d] = listed[d]
    BY <1>1
  <1>7. LineageTypeOK'
    BY <1>1, <1>2, <1>4 DEF LineageInv, LineageTypeOK
  <1>8. (Queue /\ Views /\ Finished)'
    BY <1>1, <1>2 DEF LineageInv, Queue, Views, Finished
  <1>9. ASSUME NEW d \in Deps PROVE From(d)' = From(d) /\ To(d)' = To(d)
    BY <1>1 DEF From, To
  <1>10. Todo'
    BY <1>1, <1>3, <1>4, <1>5, <1>9 DEF Todo
  <1>11. Edges'
    <2> SUFFICES ASSUME NEW d \in Deps, listed'[d] # 0
                 PROVE  /\ listed'[d] = 1 /\ d \in met
                        /\ From(d) \in visited \ Elements(frontier')
                        /\ To(d) \in visited \/ d \in todo'
      BY <1>1, <1>9 DEF Edges
    <2>1. CASE d \in Rows(a)
      BY <1>1, <1>2, <1>3, <1>4, <1>5, <2>1
    <2>2. CASE d \notin Rows(a)
      BY <1>1, <1>2, <1>6, <2>2 DEF LineageInv, Edges
    <2> QED
      BY <2>1, <2>2
  <1>12. Expanded'
    <2> SUFFICES ASSUME NEW d \in steady, From(d) \in visited \ Elements(frontier'),
                        depth[From(d)] < MaxDepth
                 PROVE  listed'[d] = 1
      BY <1>1, <1>9 DEF Expanded, LineageInv, LineageTypeOK
    <2>1. d \in Deps /\ d \in view
      BY DEF LineageInv, LineageTypeOK, Views
    <2>2. CASE From(d) = a
      <3>1. d \in Rows(a)
        BY <2>1, <2>2 DEF Rows
      <3> QED
        BY <1>5, <3>1
    <2>3. CASE From(d) # a
      <3>1. listed[d] = 1
        BY <1>2, <2>3 DEF LineageInv, Expanded
      <3>2. d \notin Rows(a)
        BY <1>4, <2>3
      <3> QED
        BY <1>6, <2>1, <3>1, <3>2
    <2> QED
      BY <2>2, <2>3
  <1>13. NodesExplained'
    <2>1. \A d \in Deps : listed[d] > 0 => listed'[d] > 0
      BY <1>1 DEF LineageInv, LineageTypeOK
    <2> QED
      BY <1>1, <1>9, <2>1 DEF LineageInv, NodesExplained
  <1> QED
    BY <1>1, <1>3, <1>7, <1>8, <1>10, <1>11, <1>12, <1>13 DEF LineageInv

\* An asset seen for the first time is one row further away than the asset that
\* is being expanded.
LEMMA VisitKeeps ==
    ASSUME LineageInv, Visit, UNCHANGED isolated
    PROVE  LineageInv'
  <1>1. PICK d \in todo :
            /\ pc = "searching" /\ todo' = todo \ {d}
            /\ IF Found(To(d))
               THEN /\ visited' = visited \cup {To(d)}
                    /\ depth' = [depth EXCEPT ![To(d)] = depth[current] + 1]
                    /\ frontier' = Enqueue(To(d))
               ELSE UNCHANGED <<visited, depth, frontier>>
            /\ UNCHANGED <<active, commits, view, steady, met, root, direction, pc, current, listed>>
    BY DEF Visit, tableVars, requestVars
  <1>2. /\ d \in Deps /\ From(d) = current /\ listed[d] = 1 /\ depth[current] < MaxDepth
        /\ current \in visited /\ visited \subseteq Assets /\ To(d) \in Assets
    BY Ends DEF LineageInv, LineageTypeOK, Todo
  <1>3. ASSUME NEW e \in Deps PROVE From(e)' = From(e) /\ To(e)' = To(e)
    BY <1>1 DEF From, To
  <1>4. CASE ~Found(To(d))
    <2>1. UNCHANGED <<visited, depth, frontier>> /\ To(d) \in visited
      BY <1>1, <1>4 DEF Found
    <2>2. LineageTypeOK'
      BY <1>1, <2>1 DEF LineageInv, LineageTypeOK
    <2>3. (Queue /\ Views /\ Finished)'
      BY <1>1, <2>1 DEF LineageInv, Queue, Views, Finished
    <2>4. Todo'
      BY <1>1, <1>3, <2>1 DEF LineageInv, LineageTypeOK, Todo
    <2>5. Edges'
      BY <1>1, <1>3, <2>1 DEF LineageInv, Edges
    <2>6. Expanded'
      BY <1>1, <1>3, <2>1 DEF LineageInv, LineageTypeOK, Expanded
    <2>7. NodesExplained'
      BY <1>1, <1>3, <2>1 DEF LineageInv, NodesExplained
    <2> QED
      BY <1>1, <2>1, <2>2, <2>3, <2>4, <2>5, <2>6, <2>7 DEF LineageInv
  <1>5. CASE Found(To(d))
    <2> DEFINE a == To(d)
    <2>1. /\ a \notin visited /\ visited' = visited \cup {a}
          /\ depth' = [depth EXCEPT ![a] = depth[current] + 1]
          /\ frontier' = Append(frontier, a)
      BY <1>1, <1>5 DEF Found, Enqueue
    <2>2. /\ frontier' \in Seq(Assets) /\ Distinct(frontier')
          /\ Elements(frontier') = Elements(frontier) \cup {a}
      BY <1>2, <2>1, AddLast DEF LineageInv, LineageTypeOK, Queue
    <2>3. /\ \A b \in visited : depth'[b] = depth[b]
          /\ depth'[a] = depth[current] + 1
          /\ depth' \in [Assets -> 0..MaxDepth]
      BY <1>2, <2>1, LineageAssumption DEF LineageInv, LineageTypeOK
    <2> HIDE DEF a
    <2>4. a = To(d)
      BY DEF a
    <2>5. LineageTypeOK'
      BY <1>1, <1>2, <2>1, <2>2, <2>3, <2>4 DEF LineageInv, LineageTypeOK
    <2>6. (Queue /\ Views /\ Finished)'
      BY <1>1, <2>1, <2>2 DEF LineageInv, Queue, Views, Finished
    <2>7. Todo'
      BY <1>1, <1>2, <1>3, <2>3 DEF LineageInv, LineageTypeOK, Todo
    <2>8. Edges'
      BY <1>1, <1>2, <1>3, <2>1, <2>2, <2>4 DEF LineageInv, Edges
    <2>9. Expanded'
      <3> SUFFICES ASSUME NEW e \in steady, From(e) \in visited' \ Elements(frontier'),
                          depth'[From(e)] < MaxDepth
                   PROVE  listed[e] = 1
        BY <1>1, <1>3 DEF LineageInv, LineageTypeOK, Expanded
      <3>1. From(e) \in visited \ Elements(frontier)
        BY <2>1, <2>2
      <3> QED
        BY <2>3, <3>1 DEF LineageInv, Expanded
    <2>10. NodesExplained'
      <3> SUFFICES ASSUME NEW b \in visited' \ {root}
                   PROVE  \E e \in Deps : /\ listed[e] > 0 /\ To(e) = b
                                          /\ From(e) \in visited' /\ depth'[b] = depth'[From(e)] + 1
        BY <1>1, <1>3 DEF NodesExplained
      <3>1. CASE b = a
        BY <1>2, <2>1, <2>3, <2>4, <3>1
      <3>2. CASE b \in visited \ {root}
        BY <2>1, <2>3, <3>2 DEF LineageInv, NodesExplained
      <3> QED
        BY <2>1, <3>1, <3>2
    <2> QED
      BY <1>1, <2>1, <2>5, <2>6, <2>7, <2>8, <2>9, <2>10 DEF LineageInv
  <1> QED
    BY <1>4, <1>5

\* The search ends with an empty queue.
LEMMA AnswerKeeps ==
    ASSUME LineageInv, Answer, UNCHANGED isolated
    PROVE  LineageInv'
  <1>1. /\ todo = {} /\ frontier = <<>> /\ pc' = "answered"
        /\ UNCHANGED <<active, commits, view, steady, met, root, direction, visited, depth,
                       frontier, current, todo, listed>>
    BY DEF Answer, tableVars, requestVars
  <1>2. LineageTypeOK'
    BY <1>1 DEF LineageInv, LineageTypeOK
  <1>3. (Queue /\ Views /\ Finished)'
    BY <1>1 DEF LineageInv, Queue, Views, Finished
  <1>4. (Todo /\ Edges /\ Expanded /\ NodesExplained)'
    BY <1>1 DEF LineageInv, Todo, Edges, Expanded, NodesExplained, From, To
  <1> QED
    BY <1>1, <1>2, <1>3, <1>4 DEF LineageInv

-----------------------------------------------------------------------------
\* Without its head a sorted queue is sorted, and the head was its least.
LEMMA TailSorted ==
    ASSUME NEW S, NEW q \in Seq(S), q # <<>>, NEW far, Sorted(q, far)
    PROVE  /\ Sorted(Tail(q), far)
           /\ \A a \in Elements(Tail(q)) : far[Head(q)] <= far[a]
  <1>1. /\ Head(q) = q[1] /\ Len(q) \in Nat \ {0}
        /\ DOMAIN q = 1..Len(q) /\ DOMAIN Tail(q) = 1..(Len(q) - 1)
        /\ \A n \in 1..(Len(q) - 1) : Tail(q)[n] = q[n + 1]
    BY HeadTailProperties
  <1>2. \A n \in 1..(Len(q) - 1) : n + 1 \in DOMAIN q /\ 1 \in DOMAIN q /\ 1 <= n + 1
    BY <1>1
  <1>3. ASSUME NEW m \in DOMAIN Tail(q), NEW n \in DOMAIN Tail(q), m <= n
        PROVE  far[Tail(q)[m]] <= far[Tail(q)[n]]
    <2>1. m + 1 \in DOMAIN q /\ n + 1 \in DOMAIN q /\ m + 1 <= n + 1
      BY <1>1, <1>3
    <2>2. far[q[m + 1]] <= far[q[n + 1]]
      BY <2>1 DEF Sorted
    <2> QED
      BY <1>1, <2>2
  <1>4. ASSUME NEW a \in Elements(Tail(q)) PROVE far[Head(q)] <= far[a]
    <2>1. PICK n \in 1..(Len(q) - 1) : a = q[n + 1]
      BY <1>1 DEF Elements
    <2> QED
      BY <1>1, <1>2, <2>1 DEF Sorted
  <1> QED
    BY <1>3, <1>4 DEF Sorted

\* A queue stays sorted if the one who joins is as far away as all others.
LEMMA LastSorted ==
    ASSUME NEW S, NEW q \in Seq(S), NEW far, NEW a \in S, Sorted(q, far),
           far[a] \in Nat, \A b \in Elements(q) : far[b] <= far[a]
    PROVE  Sorted(Append(q, a), far)
  <1> DEFINE r == Append(q, a)
  <1>1. /\ Len(q) \in Nat
        /\ DOMAIN q = 1..Len(q) /\ DOMAIN r = 1..(Len(q) + 1)
        /\ \A n \in 1..Len(q) : r[n] = q[n]
        /\ r[Len(q) + 1] = a
    BY AppendProperties
  <1> HIDE DEF r
  <1> SUFFICES ASSUME NEW m \in DOMAIN r, NEW n \in DOMAIN r, m <= n
               PROVE  far[r[m]] <= far[r[n]]
    BY DEF Sorted, r
  <1>2. CASE n = Len(q) + 1
    <2>1. CASE m = Len(q) + 1
      BY <1>1, <1>2, <2>1
    <2>2. CASE m # Len(q) + 1
      <3>1. m \in DOMAIN q /\ r[m] = q[m]
        BY <1>1, <2>2
      <3> QED
        BY <1>1, <1>2, <3>1 DEF Elements
    <2> QED
      BY <2>1, <2>2
  <1>3. CASE n # Len(q) + 1
    <2>1. m \in DOMAIN q /\ n \in DOMAIN q /\ r[m] = q[m] /\ r[n] = q[n]
      BY <1>1, <1>3
    <2> QED
      BY <2>1 DEF Sorted
  <1> QED
    BY <1>2, <1>3

\* The root is found at once.
LEMMA LayersInit == LineageInit => LayersInv
  <1> SUFFICES ASSUME LineageInit PROVE Layers /\ Followed
    BY LineageInitInv DEF LayersInv
  <1>1. /\ root \in Assets /\ visited = {root} /\ frontier = <<root>> /\ current = root
        /\ depth = [b \in Assets |-> 0] /\ listed = [d \in Deps |-> 0]
    BY DEF LineageInit, Matches
  <1>2. depth[root] = 0
    BY <1>1
  <1>3. Elements(frontier) = {root}
    BY <1>1 DEF Elements
  <1>4. Sorted(frontier, depth)
    BY <1>1, <1>2 DEF Sorted
  <1>5. Layers
    BY <1>1, <1>2, <1>3, <1>4 DEF Layers
  <1>6. Followed
    BY <1>1 DEF Followed
  <1> QED
    BY <1>5, <1>6

\* What was found so far is a matter of the search alone.
LEMMA SameLayers ==
    ASSUME LayersInv,
           UNCHANGED <<root, direction, visited, depth, frontier, current, todo, listed>>
    PROVE  (Layers /\ Followed)'
  <1>1. \A d \in Deps : From(d)' = From(d) /\ To(d)' = To(d)
    BY DEF From, To
  <1> QED
    BY <1>1 DEF LayersInv, Layers, Followed, Sorted, Elements

\* An asset at the depth limit leaves the queue: the others keep their order.
LEMMA SkipLayers ==
    ASSUME LayersInv, Skip
    PROVE  (Layers /\ Followed)'
  <1> DEFINE a == Head(frontier)
  <1>1. /\ frontier # <<>> /\ frontier' = Tail(frontier)
        /\ UNCHANGED <<root, direction, visited, depth, current, todo, listed>>
    BY DEF Skip, Idle, requestVars
  <1>2. /\ frontier \in Seq(Assets) /\ Distinct(frontier) /\ Sorted(frontier, depth)
    BY DEF LayersInv, LineageInv, LineageTypeOK, Queue, Layers
  <1>3. Elements(frontier') \subseteq Elements(frontier)
    BY <1>1, <1>2, TakeHead
  <1>4. Sorted(frontier', depth)
    BY <1>1, <1>2, TailSorted
  <1>5. Layers'
    BY <1>1, <1>3, <1>4 DEF LayersInv, Layers, Sorted
  <1>6. \A d \in Deps : From(d)' = From(d) /\ To(d)' = To(d)
    BY <1>1 DEF From, To
  <1>7. Followed'
    BY <1>1, <1>6 DEF LayersInv, Followed
  <1> QED
    BY <1>5, <1>7

\* The next asset is the nearest of the queue, and no nearer than the last.
LEMMA FetchLayers ==
    ASSUME LayersInv, Fetch
    PROVE  (Layers /\ Followed)'
  <1> DEFINE a == Head(frontier)
  <1>1. /\ frontier # <<>> /\ frontier' = Tail(frontier) /\ current' = a
        /\ todo = {} /\ todo' = Rows(a)
        /\ listed' = [d \in Deps |-> IF d \in Rows(a) THEN listed[d] + 1 ELSE listed[d]]
        /\ UNCHANGED <<root, direction, visited, depth>>
    BY DEF Fetch, Idle, requestVars
  <1>2. /\ frontier \in Seq(Assets) /\ Distinct(frontier) /\ Sorted(frontier, depth)
        /\ visited \subseteq Assets /\ current \in Assets /\ depth \in [Assets -> 0..MaxDepth]
        /\ MaxDepth \in Nat
    BY LineageAssumption DEF LayersInv, LineageInv, LineageTypeOK, Queue, Layers
  <1>3. /\ a \in Assets /\ a \in Elements(frontier)
        /\ Elements(frontier') \subseteq Elements(frontier)
    BY <1>1, <1>2, TakeHead
  <1>4. Sorted(frontier', depth) /\ \A b \in Elements(frontier') : depth[a] <= depth[b]
    BY <1>1, <1>2, TailSorted
  <1>5. depth[current] <= depth[a]
    BY <1>3 DEF LayersInv, Layers
  <1>6. ASSUME NEW b \in visited PROVE depth[b] <= depth[a] + 1
    <2>1. /\ depth[b] <= depth[current] + 1
          /\ depth[b] \in Nat /\ depth[current] \in Nat /\ depth[a] \in Nat
      BY <1>2, <1>3 DEF LayersInv, Layers
    <2> QED
      BY <1>5, <2>1
  <1>7. Layers'
    BY <1>1, <1>4, <1>6 DEF LayersInv, Layers, Sorted
  <1>8. \A d \in Deps : From(d)' = From(d) /\ To(d)' = To(d)
    BY <1>1 DEF From, To
  <1>9. Followed'
    BY <1>1, <1>8 DEF LayersInv, Followed
  <1> QED
    BY <1>7, <1>9

\* An asset found now is one row behind the current one, so it is the last.
LEMMA VisitLayers ==
    ASSUME LayersInv, Visit
    PROVE  (Layers /\ Followed)'
  <1>1. PICK d \in todo :
            /\ todo' = todo \ {d}
            /\ IF Found(To(d))
               THEN /\ visited' = visited \cup {To(d)}
                    /\ depth' = [depth EXCEPT ![To(d)] = depth[current] + 1]
                    /\ frontier' = Enqueue(To(d))
               ELSE UNCHANGED <<visited, depth, frontier>>
            /\ UNCHANGED <<root, direction, current, listed>>
    BY DEF Visit, requestVars
  <1>2. /\ d \in Deps /\ From(d) = current /\ depth[current] < MaxDepth
        /\ current \in visited /\ root \in visited /\ visited \subseteq Assets
        /\ To(d) \in Assets /\ depth \in [Assets -> 0..MaxDepth] /\ MaxDepth \in Nat
        /\ frontier \in Seq(Assets) /\ Elements(frontier) \subseteq visited
        /\ todo \subseteq Deps
    BY Ends, LineageAssumption DEF LayersInv, LineageInv, LineageTypeOK, Todo, Queue
  <1>3. ASSUME NEW e \in Deps PROVE From(e)' = From(e) /\ To(e)' = To(e)
    BY <1>1 DEF From, To
  <1>4. CASE ~Found(To(d))
    <2>1. UNCHANGED <<visited, depth, frontier>> /\ To(d) \in visited
      BY <1>1, <1>4 DEF Found
    <2>2. Layers'
      BY <1>1, <2>1 DEF LayersInv, Layers, Sorted, Elements
    <2>3. depth[To(d)] <= depth[From(d)] + 1
      BY <1>2, <2>1 DEF LayersInv, Layers
    <2>4. Followed'
      BY <1>1, <1>3, <2>1, <2>3 DEF LayersInv, Followed
    <2> QED
      BY <2>2, <2>4
  <1>5. CASE Found(To(d))
    <2>1. PICK a \in Assets : a = To(d)
      BY <1>2
    <2>2. /\ a \notin visited /\ visited' = visited \cup {a}
          /\ depth' = [depth EXCEPT ![a] = depth[current] + 1]
          /\ frontier' = Append(frontier, a)
      BY <1>1, <1>5, <2>1 DEF Found, Enqueue
    <2>3. /\ \A b \in visited : depth'[b] = depth[b]
          /\ depth'[a] = depth[current] + 1 /\ depth[current] \in Nat
      BY <1>2, <2>2
    <2>4. \A b \in Elements(frontier) : depth'[b] <= depth'[a]
      BY <1>2, <2>3 DEF LayersInv, Layers
    <2>5. Sorted(frontier, depth')
      <3>1. \A n \in DOMAIN frontier : frontier[n] \in visited
        BY <1>2 DEF Elements
      <3> QED
        BY <2>3, <3>1 DEF LayersInv, Layers, Sorted
    <2>6. Sorted(frontier', depth')
      <3>1. depth'[a] \in Nat
        BY <2>3
      <3>2. PICK far : far = depth'
        OBVIOUS
      <3>3. Sorted(Append(frontier, a), far)
        BY <1>2, <2>4, <2>5, <3>1, <3>2, LastSorted
      <3> QED
        BY <2>2, <3>2, <3>3
    <2>7. Elements(frontier') = Elements(frontier) \cup {a}
      BY <1>2, <2>2, AddLast DEF LayersInv, LineageInv, Queue
    <2>8. Layers'
      <3>1. depth'[root] = 0
        BY <1>2, <2>3 DEF LayersInv, Layers
      <3>2. \A b \in Elements(frontier') : depth'[current] <= depth'[b]
        BY <1>2, <2>3, <2>7 DEF LayersInv, Layers
      <3>3. \A b \in visited' : depth'[b] <= depth'[current] + 1
        BY <1>2, <2>2, <2>3 DEF LayersInv, Layers
      <3> QED
        BY <1>1, <2>6, <3>1, <3>2, <3>3 DEF Layers, Sorted
    <2>9. Followed'
      <3> SUFFICES ASSUME NEW e \in Deps \ todo', listed[e] # 0
                   PROVE  depth'[To(e)] <= depth'[From(e)] + 1
        BY <1>1, <1>3 DEF Followed
      <3>1. CASE e = d
        BY <1>2, <2>1, <2>3, <3>1
      <3>2. CASE e # d
        <4>1. e \notin todo
          BY <1>1, <3>2
        <4>2. From(e) \in visited /\ To(e) \in visited
          BY <4>1 DEF LayersInv, LineageInv, Edges
        <4> QED
          BY <2>3, <4>1, <4>2 DEF LayersInv, Followed
      <3> QED
        BY <3>1, <3>2
    <2> QED
      BY <2>8, <2>9
  <1> QED
    BY <1>4, <1>5

-----------------------------------------------------------------------------
\* No step of a request or of another session breaks the invariant.
LEMMA LineageInvariant == Spec => []LineageInv
  <1>1. Init => LineageInv
    BY LineageInitInv DEF Init, ImpactInit
  <1>2. LineageInv /\ [Next]_vars => LineageInv'
    <2> SUFFICES ASSUME LineageInv, [Next]_vars PROVE LineageInv'
      OBVIOUS
    <2>1. UNCHANGED isolated
      BY DEF Next, RequestStep, Change, vars
    <2>2. CASE Search
      BY <2>1, <2>2, SkipKeeps, FetchKeeps, VisitKeeps, AnswerKeeps DEF Search
    <2>3. CASE Commit
      BY <2>1, <2>3, CommitKeeps
    <2>4. CASE UNCHANGED lineageVars
      BY <2>1, <2>4 DEF lineageVars, tableVars, requestVars, searchVars, LineageInv, LineageTypeOK,
             Queue, Views, Todo, Edges, Expanded, Finished, NodesExplained, From, To
    <2> QED
      BY <2>2, <2>3, <2>4 DEF Next, RequestStep, Change, CatalogStep, CatalogChange, AnswerHealth,
          HealthChange, ImpactStep, ReadImpacts, SearchOn, Derive, Report, vars
  <1> QED
    BY <1>1, <1>2, PTL DEF Spec

\* The search goes on by distance, whatever is committed meanwhile.
LEMMA LayersInvariant == Spec => []LayersInv
  <1>1. Init => LayersInv
    BY LayersInit DEF Init, ImpactInit
  <1>2. LayersInv /\ LineageInv' /\ [Next]_vars => LayersInv'
    <2> SUFFICES ASSUME LayersInv, LineageInv', [Next]_vars PROVE (Layers /\ Followed)'
      BY DEF LayersInv
    <2>1. CASE Search
      <3>1. CASE Answer
        BY <3>1, SameLayers DEF Answer, requestVars
      <3> QED
        BY <2>1, <3>1, SkipLayers, FetchLayers, VisitLayers DEF Search
    <2>2. CASE Commit
      BY <2>2, SameLayers DEF Commit, requestVars, searchVars
    <2>3. CASE UNCHANGED lineageVars
      BY <2>3, SameLayers DEF lineageVars, requestVars, searchVars
    <2> QED
      BY <2>1, <2>2, <2>3 DEF Next, RequestStep, Change, CatalogStep, CatalogChange, AnswerHealth,
          HealthChange, ImpactStep, ReadImpacts, SearchOn, Derive, Report, vars
  <1> QED
    BY <1>1, <1>2, LineageInvariant, PTL DEF Spec

-----------------------------------------------------------------------------
\* One row further than a set of assets.
Beyond(near, rows) == near \cup {To(d) : d \in {e \in rows : From(e) \in near}}

\* The balls around the root that Within is about.
Balls(ball, rows) ==
    /\ ball[0] = {root}
    /\ \A n \in 1..MaxDepth : ball[n] = Beyond(ball[n - 1], rows)

\* There are such balls, for every limit of the depth.
LEMMA BallsExist ==
    ASSUME NEW rows, rows \subseteq Deps, root \in Assets
    PROVE  \E ball : ball = [n \in 0..MaxDepth |->
                                IF n = 0 THEN {root} ELSE Beyond(ball[n - 1], rows)]
  <1> DEFINE Rule(g, n) == /\ g[0] = {root}
                           /\ \A m \in 1..n : g[m] = Beyond(g[m - 1], rows)
             S == {n \in Nat : \E g \in [0..n -> SUBSET Assets] : Rule(g, n)}
  <1>1. \A near \in SUBSET Assets : Beyond(near, rows) \in SUBSET Assets
    BY Ends DEF Beyond
  <1>2. 0 \in S
    <2> DEFINE g == [m \in 0..0 |-> {root}]
    <2>1. g \in [0..0 -> SUBSET Assets] /\ Rule(g, 0)
      OBVIOUS
    <2> QED
      BY <2>1
  <1>3. ASSUME NEW n \in Nat, n \in S PROVE n + 1 \in S
    <2>1. PICK g \in [0..n -> SUBSET Assets] : Rule(g, n)
      BY <1>3
    <2> DEFINE last == Beyond(g[n], rows)
               h == [m \in 0..(n + 1) |-> IF m = n + 1 THEN last ELSE g[m]]
    <2>2. last \in SUBSET Assets
      BY <1>1, <2>1
    <2> HIDE DEF last
    <2>3. h \in [0..(n + 1) -> SUBSET Assets]
      BY <2>1, <2>2
    <2>4. h[0] = {root}
      BY <2>1
    <2>5. ASSUME NEW m \in 1..(n + 1) PROVE h[m] = Beyond(h[m - 1], rows)
      <3>1. CASE m = n + 1
        <4>1. h[m] = last /\ h[m - 1] = g[n]
          BY <3>1
        <4> QED
          BY <4>1 DEF last
      <3>2. CASE m # n + 1
        <4>1. m \in 1..n /\ h[m] = g[m] /\ h[m - 1] = g[m - 1]
          BY <3>2
        <4> QED
          BY <2>1, <4>1
      <3> QED
        BY <3>1, <3>2
    <2>6. Rule(h, n + 1)
      BY <2>4, <2>5
    <2> HIDE DEF h, Rule
    <2> QED
      BY <2>3, <2>6
  <1>4. MaxDepth \in S
    <2> HIDE DEF S
    <2> QED
      BY <1>2, <1>3, Induct, LineageAssumption
  <1>5. PICK g \in [0..MaxDepth -> SUBSET Assets] : Rule(g, MaxDepth)
    BY <1>4
  <1>6. ASSUME NEW n \in 0..MaxDepth
        PROVE  g[n] = IF n = 0 THEN {root} ELSE Beyond(g[n - 1], rows)
    <2>1. CASE n = 0
      BY <1>5, <2>1
    <2>2. CASE n # 0
      <3>1. n \in 1..MaxDepth
        BY <2>2, LineageAssumption
      <3> QED
        BY <1>5, <2>2, <3>1
    <2> QED
      BY <2>1, <2>2
  <1>7. g = [n \in 0..MaxDepth |-> IF n = 0 THEN {root} ELSE Beyond(g[n - 1], rows)]
    BY <1>5, <1>6, Zenon
  <1> QED
    BY <1>7

\* What is within reach is the outermost of the balls.
LEMMA WithinBalls ==
    ASSUME NEW rows, rows \subseteq Deps, root \in Assets
    PROVE  \E ball : Balls(ball, rows) /\ Within(rows) = ball[MaxDepth]
  <1> DEFINE ball == CHOOSE f : f = [n \in 0..MaxDepth |->
                         IF n = 0 THEN {root}
                         ELSE f[n - 1] \cup {To(d) : d \in {e \in rows : From(e) \in f[n - 1]}}]
  <1>1. Within(rows) = ball[MaxDepth]
    BY DEF Within
  <1>2. \E f : f = [n \in 0..MaxDepth |-> IF n = 0 THEN {root} ELSE Beyond(f[n - 1], rows)]
    BY BallsExist, Zenon
  <1>3. ball = [n \in 0..MaxDepth |->
                         IF n = 0 THEN {root}
                         ELSE ball[n - 1] \cup {To(d) : d \in {e \in rows : From(e) \in ball[n - 1]}}]
    BY <1>2, Zenon DEF Beyond
  <1> HIDE DEF ball
  <1>4. \A n \in 0..MaxDepth : ball[n] = IF n = 0 THEN {root} ELSE Beyond(ball[n - 1], rows)
    BY <1>3, Zenon DEF Beyond
  <1>5. Balls(ball, rows)
    <2>1. 0 \in 0..MaxDepth /\ \A n \in 1..MaxDepth : n \in 0..MaxDepth /\ n # 0
      BY LineageAssumption
    <2> QED
      BY <1>4, <2>1 DEF Balls
  <1> QED
    BY <1>1, <1>5

\* An asset in reach of the rows that stayed was found, and no further away.
LEMMA SteadyFound ==
    ASSUME LayersInv, pc = "answered"
    PROVE  Within(steady) \subseteq visited
  <1>1. /\ steady \subseteq Deps /\ root \in Assets /\ visited \subseteq Assets
        /\ depth \in [Assets -> 0..MaxDepth] /\ MaxDepth \in Nat
        /\ root \in visited /\ depth[root] = 0
    BY LineageAssumption DEF LayersInv, LineageInv, LineageTypeOK, Layers
  <1>2. todo = {} /\ Elements(frontier) = {}
    BY DEF LayersInv, LineageInv, Finished, Elements
  <1>3. PICK ball : Balls(ball, steady) /\ Within(steady) = ball[MaxDepth]
    BY <1>1, WithinBalls
  <1> DEFINE Near(n) == \A a \in ball[n] : a \in visited /\ depth[a] <= n
             S == {n \in Nat : n <= MaxDepth => Near(n)}
  <1>4. 0 \in S
    <2>1. ball[0] = {root}
      BY <1>3 DEF Balls
    <2> QED
      BY <1>1, <2>1
  <1>5. ASSUME NEW n \in Nat, n \in S PROVE n + 1 \in S
    <2> SUFFICES ASSUME n + 1 <= MaxDepth, NEW a \in ball[n + 1]
                 PROVE  a \in visited /\ depth[a] <= n + 1
      OBVIOUS
    <2>1. Near(n)
      BY <1>1, <1>5
    <2>2. a \in Beyond(ball[n], steady)
      <3>1. n + 1 \in 1..MaxDepth /\ (n + 1) - 1 = n
        BY <1>1
      <3> QED
        BY <1>3, <3>1 DEF Balls
    <2>3. CASE a \in ball[n]
      <3>1. a \in visited /\ depth[a] <= n /\ depth[a] \in Nat
        BY <1>1, <2>1, <2>3
      <3> QED
        BY <3>1
    <2>4. CASE a \notin ball[n]
      <3>1. PICK d \in steady : a = To(d) /\ From(d) \in ball[n]
        BY <2>2, <2>4 DEF Beyond
      <3>2. /\ d \in Deps /\ From(d) \in visited /\ depth[From(d)] <= n
            /\ depth[From(d)] \in Nat
        BY <1>1, <2>1, <3>1
      <3>3. listed[d] = 1
        BY <1>1, <1>2, <3>1, <3>2 DEF LayersInv, LineageInv, Expanded
      <3>4. To(d) \in visited
        BY <1>2, <3>2, <3>3 DEF LayersInv, LineageInv, Edges
      <3>5. depth[To(d)] <= depth[From(d)] + 1
        BY <1>2, <3>2, <3>3 DEF LayersInv, Followed
      <3>6. depth[To(d)] \in Nat
        BY <1>1, <3>4
      <3> QED
        BY <3>1, <3>2, <3>4, <3>5, <3>6
    <2> QED
      BY <2>3, <2>4
  <1>6. MaxDepth \in S
    <2> HIDE DEF S
    <2> QED
      BY <1>1, <1>4, <1>5, Induct
  <1> QED
    BY <1>1, <1>3, <1>6

\* An asset that was found is in reach of the rows seen.
LEMMA FoundMet ==
    ASSUME LayersInv, pc = "answered"
    PROVE  visited \subseteq Within(met)
  <1>1. /\ met \subseteq Deps /\ root \in Assets /\ visited \subseteq Assets
        /\ depth \in [Assets -> 0..MaxDepth] /\ MaxDepth \in Nat
        /\ root \in visited /\ depth[root] = 0
    BY LineageAssumption DEF LayersInv, LineageInv, LineageTypeOK, Layers
  <1>2. PICK ball : Balls(ball, met) /\ Within(met) = ball[MaxDepth]
    BY <1>1, WithinBalls
  <1>3. ASSUME NEW a \in visited, a # root
        PROVE  \E d \in met : /\ To(d) = a /\ From(d) \in visited
                              /\ depth[a] = depth[From(d)] + 1
    <2>1. PICK d \in Deps : /\ listed[d] > 0 /\ To(d) = a
                            /\ From(d) \in visited /\ depth[a] = depth[From(d)] + 1
      BY <1>3 DEF LayersInv, LineageInv, NodesExplained
    <2>2. d \in met
      BY <2>1 DEF LayersInv, LineageInv, LineageTypeOK, Edges
    <2> QED
      BY <2>1, <2>2
  <1> DEFINE Near(n) == \A a \in visited : depth[a] <= n => a \in ball[n]
             S == {n \in Nat : n <= MaxDepth => Near(n)}
  <1>4. 0 \in S
    <2>1. ball[0] = {root}
      BY <1>2 DEF Balls
    <2>2. ASSUME NEW a \in visited, depth[a] <= 0, a # root PROVE FALSE
      <3>1. PICK d \in met : From(d) \in visited /\ depth[a] = depth[From(d)] + 1
        BY <1>3, <2>2
      <3>2. depth[From(d)] \in Nat
        BY <1>1, <3>1
      <3> QED
        BY <2>2, <3>1, <3>2
    <2> QED
      BY <2>1, <2>2
  <1>5. ASSUME NEW n \in Nat, n \in S PROVE n + 1 \in S
    <2> SUFFICES ASSUME n + 1 <= MaxDepth, NEW a \in visited, depth[a] <= n + 1
                 PROVE  a \in ball[n + 1]
      OBVIOUS
    <2>1. Near(n)
      BY <1>1, <1>5
    <2>2. ball[n + 1] = Beyond(ball[n], met)
      <3>1. n + 1 \in 1..MaxDepth /\ (n + 1) - 1 = n
        BY <1>1
      <3> QED
        BY <1>2, <3>1 DEF Balls
    <2>3. depth[a] \in Nat
      BY <1>1
    <2>4. CASE depth[a] <= n
      BY <2>1, <2>2, <2>4 DEF Beyond
    <2>5. CASE depth[a] = n + 1
      <3>1. a # root
        BY <1>1, <2>5
      <3>2. PICK d \in met : /\ To(d) = a /\ From(d) \in visited
                             /\ depth[a] = depth[From(d)] + 1
        BY <1>3, <3>1
      <3>3. depth[From(d)] <= n
        BY <1>1, <2>5, <3>2
      <3>4. From(d) \in ball[n]
        BY <2>1, <3>2, <3>3
      <3> QED
        BY <2>2, <3>2, <3>4 DEF Beyond
    <2> QED
      BY <2>3, <2>4, <2>5
  <1>6. MaxDepth \in S
    <2> HIDE DEF S
    <2> QED
      BY <1>1, <1>4, <1>5, Induct
  <1>7. ASSUME NEW a \in visited PROVE a \in ball[MaxDepth]
    <2>1. depth[a] <= MaxDepth
      BY <1>1
    <2> QED
      BY <1>1, <1>6, <2>1
  <1> QED
    BY <1>2, <1>7

\* An answer lies between what was in reach all the time and what was in reach
\* of the rows seen: a breadth-first search that asks one SELECT for each asset
\* neither overlooks a path that stayed nor makes one up (_lineage).
THEOREM AnswerLiesBetween == Spec => []AnswerBetween
  <1>1. LayersInv => AnswerBetween
    BY SteadyFound, FoundMet DEF AnswerBetween
  <1> QED
    BY <1>1, LayersInvariant, PTL

\* The APIs of an answer are those on record or those that the search found.
LEMMA DerivedInvariant == Spec => []Derived
  <1>1. Init => Derived
    BY DEF Init, ImpactInit, Derived
  <1>2. Derived /\ [Next]_vars => Derived'
    <2> SUFFICES ASSUME Derived, [Next]_vars, kind' = "impacted_apis", stage' = "done"
                 PROVE  \/ Settled(explicit)' /\ apis' = explicit' \cap Apis
                        \/ pc' = "answered" /\ apis' = visited' \cap Apis
      BY DEF Derived, Settled
    <2>1. CASE ReadImpacts
      BY <2>1 DEF ReadImpacts, Settled
    <2>2. CASE Derive
      BY <2>2 DEF Derive, lineageVars, searchVars
    <2>3. CASE SearchOn
      BY <2>3 DEF SearchOn, impactVars
    <2>4. CASE UNCHANGED <<kind, stage, explicit, apis, pc, visited>>
      BY <2>4 DEF Derived, Settled
    <2>5. Report => UNCHANGED <<kind, stage, explicit, apis, pc, visited>>
      BY DEF Report, lineageVars, searchVars
    <2>6. Commit /\ UNCHANGED impactVars => UNCHANGED <<kind, stage, explicit, apis, pc, visited>>
      BY DEF Commit, impactVars, searchVars
    <2>7. UNCHANGED <<lineageVars, impactVars>> =>
              UNCHANGED <<kind, stage, explicit, apis, pc, visited>>
      BY DEF lineageVars, impactVars, searchVars
    <2> QED
      BY <2>1, <2>2, <2>3, <2>4, <2>5, <2>6, <2>7 DEF Next, RequestStep, Change, CatalogStep,
          CatalogChange, AnswerHealth, HealthChange, ImpactStep, vars
  <1> QED
    BY <1>1, <1>2, PTL DEF Spec

\* An API that was downstream all the time is missing only if an impact on
\* record names another one, and none is made up, whatever is committed between
\* the two reads (get_impacted_apis).
THEOREM ApisAreAccountedFor == Spec => []ApisAccounted
  <1>1. LayersInv /\ Derived => ApisAccounted
    <2> SUFFICES ASSUME LayersInv, Derived, stage = "done", kind = "impacted_apis"
                 PROVE  /\ apis \subseteq explicit \cup Within(met)
                        /\ Within(steady) \cap Apis \subseteq apis \/ explicit \cap apis # {}
      BY DEF ApisAccounted
    <2>1. CASE Settled(explicit) /\ apis = explicit \cap Apis
      BY <2>1 DEF Settled
    <2>2. CASE pc = "answered" /\ apis = visited \cap Apis
      BY <2>2, SteadyFound, FoundMet
    <2> QED
      BY <2>1, <2>2 DEF Derived
  <1> QED
    BY <1>1, LayersInvariant, DerivedInvariant, PTL

\* Every node of a lineage is explained by its edges, even if the database was
\* never in a state that has them all (_lineage).
THEOREM NodesAreExplained == Spec => []NodesExplained
  <1>1. LineageInv => NodesExplained
    BY DEF LineageInv
  <1> QED
    BY <1>1, LineageInvariant, PTL

\* The edges of a lineage are the rows of its expanded nodes, each once
\* (_lineage).
THEOREM EdgesAreExact == Spec => []EdgesExact
  <1>1. LineageInv => EdgesExact
    <2> SUFFICES ASSUME LineageInv, pc = "answered", NEW d \in Deps
                 PROVE  /\ listed[d] <= 1
                        /\ listed[d] = 1 => d \in met /\ From(d) \in visited /\ To(d) \in visited
                        /\ d \in steady /\ From(d) \in visited /\ depth[From(d)] < MaxDepth
                              => listed[d] = 1
      BY DEF EdgesExact
    <2>1. todo = {} /\ Elements(frontier) = {}
      BY DEF LineageInv, Finished, Elements
    <2>2. listed[d] # 0 => listed[d] = 1 /\ d \in met /\ From(d) \in visited /\ To(d) \in visited
      BY <2>1 DEF LineageInv, Edges
    <2> QED
      BY <2>1, <2>2 DEF LineageInv, LineageTypeOK, Expanded
  <1> QED
    BY <1>1, LineageInvariant, PTL
=============================================================================
