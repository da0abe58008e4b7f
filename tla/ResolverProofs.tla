--------------------------- MODULE ResolverProofs ---------------------------
(* Proofs about Resolver and Materialize, for any mods, seeds and answers of *)
(* the providers.                                                            *)
EXTENDS Materialize, SequenceTheorems, TLAPS

\* Where nothing is under way; what is left of the loop; the frames hang together.
Quiet ==
    /\ pc = "seed" => resolved = <<>> /\ failed = {} /\ extra = {}
    /\ pc \in {"seed", "closure"} => stack = <<>> /\ visited = {} /\ roots = <<>>
    /\ pc \notin {"cascade", "done"} => Cascaded = {}
    /\ pc # "done" => report = None

Looping ==
    /\ IsInjective(roots) /\ ToSet(roots) \subseteq Resolved
    /\ pc = "cascade" /\ stack # <<>> => stack[1].node \notin ToSet(roots)

Linked ==
    /\ \A i \in 1..Len(stack) :
         /\ stack[i].node \in Resolved
         /\ ToSet(stack[i].deps) \subseteq Needs(stack[i].node)
    /\ \A i \in 1..(Len(stack) - 1) : stack[i + 1].node \in Needs(stack[i].node)

Basic == TypeOK /\ Quiet /\ Looping /\ Linked

----------------------------------------------------------------------------
(* Sequences and the sets of their elements. *)

LEMMA TailSet ==
    ASSUME NEW S, NEW s \in Seq(S), s # <<>>
    PROVE  /\ Head(s) \in S /\ Tail(s) \in Seq(S)
           /\ ToSet(s) = {Head(s)} \cup ToSet(Tail(s))
           /\ IsInjective(s) => IsInjective(Tail(s)) /\ Head(s) \notin ToSet(Tail(s))
  <1>1. Head(s) \in S /\ Tail(s) \in Seq(S) /\ Len(s) \in Nat \ {0}
    BY HeadTailProperties, EmptySeq
  <1>2. Len(Tail(s)) = Len(s) - 1 /\ Head(s) = s[1] /\ DOMAIN s = 1..Len(s)
        /\ DOMAIN Tail(s) = 1..(Len(s) - 1)
    BY <1>1, HeadTailProperties, LenProperties
  <1>3. \A i \in 1..(Len(s) - 1) : Tail(s)[i] = s[i + 1]
    BY <1>2, HeadTailProperties
  <1>4. \A i \in 2..Len(s) : i - 1 \in 1..(Len(s) - 1) /\ s[i] = Tail(s)[i - 1]
    BY <1>1, <1>3
  <1>5. ToSet(s) = {Head(s)} \cup ToSet(Tail(s))
    <2>1. ASSUME NEW i \in 1..Len(s) PROVE s[i] \in {Head(s)} \cup ToSet(Tail(s))
      <3>1. CASE i = 1
        BY <1>2, <3>1
      <3>2. CASE i # 1
        <4>1. i - 1 \in DOMAIN Tail(s) /\ s[i] = Tail(s)[i - 1]
          BY <1>1, <1>2, <1>4, <3>2
        <4>2. QED BY <4>1 DEF ToSet
      <3>3. QED BY <3>1, <3>2
    <2>2. {Head(s)} \cup ToSet(Tail(s)) \subseteq ToSet(s)
      <3>1. \A i \in 1..(Len(s) - 1) : i + 1 \in 1..Len(s)
        BY <1>1
      <3>2. QED BY <1>1, <1>2, <1>3, <3>1 DEF ToSet
    <2>3. QED BY <1>2, <2>1, <2>2 DEF ToSet
  <1>6. IsInjective(s) => IsInjective(Tail(s)) /\ Head(s) \notin ToSet(Tail(s))
    BY <1>1, <1>2, <1>3 DEF ToSet, IsInjective
  <1>7. QED BY <1>1, <1>5, <1>6

LEMMA AppendSet ==
    ASSUME NEW S, NEW s \in Seq(S), NEW e \in S
    PROVE  /\ Append(s, e) \in Seq(S)
           /\ ToSet(Append(s, e)) = ToSet(s) \cup {e}
           /\ IsInjective(s) /\ e \notin ToSet(s) => IsInjective(Append(s, e))
  <1>1. /\ Append(s, e) \in Seq(S) /\ Len(s) \in Nat /\ Len(Append(s, e)) = Len(s) + 1
        /\ DOMAIN s = 1..Len(s) /\ DOMAIN Append(s, e) = 1..(Len(s) + 1)
        /\ \A i \in 1..Len(s) : Append(s, e)[i] = s[i]
        /\ Append(s, e)[Len(s) + 1] = e
    BY AppendProperties, LenProperties
  <1>2. ToSet(Append(s, e)) = ToSet(s) \cup {e}
    BY <1>1 DEF ToSet
  <1>3. IsInjective(s) /\ e \notin ToSet(s) => IsInjective(Append(s, e))
    BY <1>1 DEF ToSet, IsInjective
  <1>4. QED BY <1>1, <1>2, <1>3

LEMMA Joined ==
    ASSUME NEW S, NEW a \in Seq(S), NEW b \in Seq(S)
    PROVE  /\ a \o b \in Seq(S)
           /\ Len(a) \in Nat /\ Len(b) \in Nat
           /\ Len(a \o b) = Len(a) + Len(b)
           /\ \A i \in 1..Len(a) : (a \o b)[i] = a[i]
           /\ \A i \in 1..Len(b) : (a \o b)[Len(a) + i] = b[i]
  <1>1. Len(a) \in Nat /\ Len(b) \in Nat
    BY LenProperties
  <1>2. /\ a \o b \in Seq(S) /\ Len(a \o b) = Len(a) + Len(b)
        /\ \A i \in 1..(Len(a) + Len(b)) :
             (a \o b)[i] = IF i <= Len(a) THEN a[i] ELSE b[i - Len(a)]
    BY ConcatProperties
  <1>3. \A i \in 1..Len(b) :
          /\ Len(a) + i \in 1..(Len(a) + Len(b))
          /\ (Len(a) + i) - Len(a) = i /\ ~(Len(a) + i <= Len(a))
    BY <1>1
  <1>4. QED BY <1>1, <1>2, <1>3

LEMMA RemoveAtSet ==
    ASSUME NEW S, NEW s \in Seq(S), IsInjective(s), NEW i \in DOMAIN s
    PROVE  /\ RemoveAt(s, i) \in Seq(S)
           /\ ToSet(RemoveAt(s, i)) = ToSet(s) \ {s[i]}
           /\ IsInjective(RemoveAt(s, i))
  <1> DEFINE n == Len(s)
             r == RemoveAt(s, i)
  <1>1. n \in Nat /\ DOMAIN s = 1..n /\ i \in 1..n /\ \A j \in 1..n : s[j] \in S
    BY LenProperties
  <1>2. /\ SubSeq(s, 1, i - 1) \in Seq(S) /\ Len(SubSeq(s, 1, i - 1)) = i - 1
        /\ \A j \in 1..(i - 1) : SubSeq(s, 1, i - 1)[j] = s[j]
    BY <1>1, SubSeqProperties
  <1>3. /\ SubSeq(s, i + 1, n) \in Seq(S) /\ Len(SubSeq(s, i + 1, n)) = n - i
        /\ \A j \in 1..(n - i) : SubSeq(s, i + 1, n)[j] = s[i + j]
    BY <1>1, SubSeqProperties
  <1>4. /\ r \in Seq(S) /\ Len(r) = n - 1
        /\ \A j \in 1..(n - 1) : r[j] = IF j < i THEN s[j] ELSE s[j + 1]
    <2> DEFINE a == SubSeq(s, 1, i - 1)
               b == SubSeq(s, i + 1, n)
    <2>1. /\ a \in Seq(S) /\ Len(a) = i - 1 /\ \A j \in 1..(i - 1) : a[j] = s[j]
          /\ b \in Seq(S) /\ Len(b) = n - i /\ \A j \in 1..(n - i) : b[j] = s[i + j]
      BY <1>1, <1>2, <1>3
    <2>2. r = a \o b
      BY DEF RemoveAt
    <2> HIDE DEF a, b
    <2>3. /\ a \o b \in Seq(S) /\ Len(a \o b) = Len(a) + Len(b)
          /\ \A j \in 1..(Len(a) + Len(b)) :
               (a \o b)[j] = IF j <= Len(a) THEN a[j] ELSE b[j - Len(a)]
      BY <2>1, ConcatProperties
    <2> HIDE DEF r, n
    <2>4. ASSUME NEW j \in 1..(n - 1)
          PROVE  r[j] = IF j < i THEN s[j] ELSE s[j + 1]
      <3>1. CASE j < i
        BY <1>1, <2>1, <2>2, <2>3, <3>1
      <3>2. CASE ~(j < i)
        <4>1. j - (i - 1) \in 1..(n - i) /\ i + (j - (i - 1)) = j + 1
          BY <1>1, <3>2
        <4>2. b[j - (i - 1)] = s[j + 1]
          BY <2>1, <4>1
        <4>3. r[j] = b[j - (i - 1)]
          BY <1>1, <2>1, <2>2, <2>3, <3>2
        <4>4. QED BY <3>2, <4>2, <4>3
      <3>3. QED BY <3>1, <3>2
    <2>5. QED BY <1>1, <2>1, <2>2, <2>3, <2>4
  <1>5. DOMAIN r = 1..(n - 1)
    BY <1>4, LenProperties
  <1>6. ToSet(r) = ToSet(s) \ {s[i]}
    <2>1. ToSet(r) \subseteq ToSet(s) \ {s[i]}
      BY <1>1, <1>4, <1>5 DEF ToSet, IsInjective
    <2>2. ASSUME NEW j \in 1..n, j # i PROVE s[j] \in ToSet(r)
      <3>1. CASE j < i
        BY <1>1, <1>4, <1>5, <3>1 DEF ToSet
      <3>2. CASE j > i
        <4>1. j - 1 \in 1..(n - 1) /\ r[j - 1] = s[j]
          BY <1>1, <1>4, <3>2
        <4>2. QED BY <4>1, <1>5 DEF ToSet
      <3>3. QED BY <2>2, <3>1, <3>2, <1>1
    <2>3. QED BY <1>1, <2>1, <2>2 DEF ToSet
  <1>7. IsInjective(r)
    BY <1>1, <1>4, <1>5 DEF IsInjective
  <1>8. QED BY <1>4, <1>6, <1>7

----------------------------------------------------------------------------
(* The stack of a search, and what a step does to it. *)

Frames == [node : Mods, deps : Seq(Projects)]

LEMMA WithDeps ==
    ASSUME NEW g, g \in Frames, NEW t
    PROVE  [g EXCEPT !.deps = t] = [node |-> g.node, deps |-> t]
  BY DEF Frames

LEMMA StackFacts ==
    ASSUME TypeOK
    PROVE  /\ Len(stack) \in Nat /\ DOMAIN stack = 1..Len(stack)
           /\ stack # <<>> => Len(stack) \in 1..Len(stack)
           /\ \A i \in 1..Len(stack) :
                /\ stack[i] \in Frames
                /\ stack[i] = [node |-> stack[i].node, deps |-> stack[i].deps]
           /\ Path \in Seq(Mods) /\ Len(Path) = Len(stack)
           /\ DOMAIN Path = 1..Len(stack)
           /\ \A i \in 1..Len(stack) : Path[i] = stack[i].node
           /\ \A m \in Mods : requires[m] \in Seq(Projects) /\ Needs(m) \subseteq Mods
  <1>1. stack \in Seq(Frames)
    BY DEF TypeOK, Frames
  <1>2. /\ Len(stack) \in Nat /\ DOMAIN stack = 1..Len(stack)
        /\ \A i \in 1..Len(stack) : stack[i] \in Frames
    BY <1>1, LenProperties
  <1>3. stack # <<>> => Len(stack) \in 1..Len(stack)
    BY <1>1, <1>2, EmptySeq
  <1>4. Path = [i \in 1..Len(stack) |-> stack[i].node]
    BY <1>2 DEF Path
  <1>5. \A i \in 1..Len(stack) : stack[i].node \in Mods
    BY <1>2 DEF Frames
  <1>6. Path \in Seq(Mods) /\ Len(Path) = Len(stack)
    BY <1>2, <1>4, <1>5
  <1>7. ASSUME NEW m \in Mods
        PROVE  requires[m] \in Seq(Projects) /\ Needs(m) \subseteq Mods
    <2>1. requires[m] \in Seq(Projects)
      <3>1. requires[m] \in DepLists \cup {<<>>}
        BY DEF TypeOK
      <3>2. <<>> \in Seq(Projects)
        BY EmptySeq
      <3>3. QED BY <3>1, <3>2, ResolverAssumption
    <2>2. ToSet(requires[m]) \subseteq Projects
      BY <2>1, LenProperties DEF ToSet
    <2>3. QED BY <2>1, <2>2 DEF Needs, Mods
  <1>8. \A i \in 1..Len(stack) : stack[i] = [node |-> stack[i].node, deps |-> stack[i].deps]
    BY <1>2 DEF Frames
  <1>9. QED BY <1>2, <1>3, <1>4, <1>6, <1>7, <1>8

\* A call returns: the stack without its last frame.
LEMMA LeaveMoves ==
    ASSUME TypeOK, stack # <<>>, Leave
    PROVE  /\ stack' \in Seq(Frames) /\ Len(stack') = Len(stack) - 1
           /\ \A i \in 1..(Len(stack) - 1) : stack'[i] = stack[i]
  <1>1. Len(stack) \in Nat \ {0} /\ \A i \in 1..Len(stack) : stack[i] \in Frames
    BY StackFacts
  <1>2. stack' = SubSeq(stack, 1, Len(stack) - 1)
    BY DEF Leave, Front
  <1>3. /\ SubSeq(stack, 1, Len(stack) - 1) \in Seq(Frames)
        /\ Len(SubSeq(stack, 1, Len(stack) - 1)) = Len(stack) - 1
        /\ \A i \in 1..(Len(stack) - 1) : SubSeq(stack, 1, Len(stack) - 1)[i] = stack[i]
    BY <1>1, SubSeqProperties
  <1>4. QED BY <1>2, <1>3

\* The call looks at its next dependency.
LEMMA AdvanceMoves ==
    ASSUME TypeOK, stack # <<>>, Top.deps # <<>>
    PROVE  /\ Advanced \in Seq(Frames) /\ Len(Advanced) = Len(stack)
           /\ \A i \in 1..(Len(stack) - 1) : Advanced[i] = stack[i]
           /\ Advanced[Len(stack)] = [node |-> Top.node, deps |-> Tail(Top.deps)]
           /\ Top = stack[Len(stack)]
           /\ Top.deps \in Seq(Projects) /\ Tail(Top.deps) \in Seq(Projects)
           /\ ToSet(Top.deps) = {Head(Top.deps)} \cup ToSet(Tail(Top.deps))
           /\ Head(Top.deps) \in Projects
  <1> DEFINE n == Len(stack)
             f == [node |-> Top.node, deps |-> Tail(Top.deps)]
  <1>1. /\ stack \in Seq(Frames) /\ n \in 1..n /\ Top = stack[n] /\ Top \in Frames
        /\ Top = [node |-> Top.node, deps |-> Top.deps]
    BY StackFacts DEF TypeOK, Frames, Top, Last
  <1>2. Top.deps \in Seq(Projects) /\ Top.node \in Mods
    BY <1>1 DEF Frames
  <1>3. /\ Tail(Top.deps) \in Seq(Projects) /\ Head(Top.deps) \in Projects
        /\ ToSet(Top.deps) = {Head(Top.deps)} \cup ToSet(Tail(Top.deps))
    BY <1>2, TailSet
  <1>4. f \in Frames
    BY <1>2, <1>3 DEF Frames
  <1>5. Advanced = [stack EXCEPT ![n] = f]
    <2>1. Advanced = [stack EXCEPT ![n] = [stack[n] EXCEPT !.deps = Tail(stack[n].deps)]]
      BY DEF Advanced
    <2>2. [Top EXCEPT !.deps = Tail(Top.deps)] = f
      BY <1>1, WithDeps
    <2>3. QED BY <1>1, <2>1, <2>2
  <1>6. /\ [stack EXCEPT ![n] = f] \in Seq(Frames)
        /\ Len([stack EXCEPT ![n] = f]) = n
        /\ \A j \in 1..n : [stack EXCEPT ![n] = f][j] = IF j = n THEN f ELSE stack[j]
    BY <1>1, <1>4, ExceptSeq
  <1>7. QED BY <1>1, <1>2, <1>3, <1>5, <1>6

\* It makes a call.
LEMMA EnterMoves ==
    ASSUME TypeOK, stack # <<>>, Top.deps # <<>>, Enter(Head(Top.deps))
    PROVE  LET d == Head(Top.deps)
           IN  /\ stack' \in Seq(Frames) /\ Len(stack') = Len(stack) + 1
               /\ \A i \in 1..(Len(stack) - 1) : stack'[i] = stack[i]
               /\ stack'[Len(stack)] = [node |-> Top.node, deps |-> Tail(Top.deps)]
               /\ stack'[Len(stack) + 1] = [node |-> d, deps |-> requires[d]]
               /\ d \in Projects
  <1> DEFINE d == Head(Top.deps)
             f == [node |-> d, deps |-> requires[d]]
  <1>1. d \in Mods /\ d \in Projects
    BY AdvanceMoves DEF Mods
  <1>2. f \in Frames
    BY <1>1, StackFacts DEF Frames
  <1>3. stack' = Append(Advanced, f)
    BY DEF Enter, Frame
  <1>4. /\ Append(Advanced, f) \in Seq(Frames)
        /\ Len(Append(Advanced, f)) = Len(Advanced) + 1
        /\ \A i \in 1..Len(Advanced) : Append(Advanced, f)[i] = Advanced[i]
        /\ Append(Advanced, f)[Len(Advanced) + 1] = f
    BY <1>2, AdvanceMoves, AppendProperties
  <1>5. Len(stack) \in 1..Len(stack)
    BY StackFacts
  <1>6. QED BY <1>1, <1>3, <1>4, <1>5, AdvanceMoves

\* A step of a search that does not end it.
Moved ==
    \/ Leave
    \/ Top.deps # <<>> /\ (Pass(Head(Top.deps)) \/ Enter(Head(Top.deps)))

LEMMA LinkedNext ==
    ASSUME resolved' = resolved, requires' = requires,
           \A i \in 1..Len(stack') :
             /\ stack'[i].node \in Resolved
             /\ ToSet(stack'[i].deps) \subseteq Needs(stack'[i].node),
           \A i \in 1..(Len(stack') - 1) : stack'[i + 1].node \in Needs(stack'[i].node)
    PROVE  Linked'
  <1>1. Resolved' = Resolved
    BY DEF Resolved
  <1>2. ASSUME NEW i \in 1..Len(stack')
        PROVE  /\ stack'[i].node \in Resolved'
               /\ ToSet(stack'[i].deps) \subseteq ToSet(requires'[stack'[i].node])
    BY <1>1 DEF Needs
  <1>3. ASSUME NEW i \in 1..(Len(stack') - 1)
        PROVE  stack'[i + 1].node \in ToSet(requires'[stack'[i].node])
    BY DEF Needs
  <1>4. QED BY <1>2, <1>3 DEF Linked, Needs

LEMMA Moves ==
    ASSUME TypeOK, Linked, stack # <<>>, Moved, UNCHANGED <<resolved, requires>>
    PROVE  /\ stack' \in Seq(Frames) /\ visited' \subseteq Mods
           /\ Linked'
           /\ stack' # <<>> => stack'[1].node = stack[1].node
  <1>1. /\ Len(stack) \in Nat \ {0} /\ Top = stack[Len(stack)]
        /\ \A i \in 1..Len(stack) : stack[i] \in Frames
    BY StackFacts DEF Top, Last
  <1>2. /\ ToSet(Top.deps) \subseteq Needs(Top.node)
        /\ resolved' = resolved /\ requires' = requires
    BY <1>1 DEF Linked
  <1>3. CASE Leave
    <2>1. /\ stack' \in Seq(Frames) /\ Len(stack') = Len(stack) - 1
          /\ \A i \in 1..(Len(stack) - 1) : stack'[i] = stack[i]
          /\ visited' = visited
      BY <1>3, LeaveMoves DEF Leave
    <2>2. Linked'
      <3>1. \A i \in 1..Len(stack') : i \in 1..Len(stack) /\ stack'[i] = stack[i]
        BY <1>1, <2>1
      <3>2. \A i \in 1..(Len(stack') - 1) :
              i \in 1..(Len(stack) - 1) /\ i \in 1..Len(stack') /\ i + 1 \in 1..Len(stack')
        BY <1>1, <2>1
      <3>3. QED BY <1>2, <3>1, <3>2, LinkedNext DEF Linked
    <2>3. stack' # <<>> => stack'[1].node = stack[1].node
      <3>1. stack' # <<>> => Len(stack') \in Nat \ {0}
        BY <2>1, EmptySeq
      <3>2. QED BY <1>1, <2>1, <3>1
    <2>4. QED BY <2>1, <2>2, <2>3 DEF TypeOK
  <1>4. CASE Top.deps # <<>> /\ Pass(Head(Top.deps))
    <2>1. /\ stack' \in Seq(Frames) /\ Len(stack') = Len(stack)
          /\ \A i \in 1..(Len(stack) - 1) : stack'[i] = stack[i]
          /\ stack'[Len(stack)] = [node |-> Top.node, deps |-> Tail(Top.deps)]
          /\ ToSet(Tail(Top.deps)) \subseteq ToSet(Top.deps)
          /\ visited' = visited
      BY <1>4, AdvanceMoves DEF Pass
    <2>2. /\ \A i \in 1..Len(stack) : stack'[i].node = stack[i].node
          /\ \A i \in 1..Len(stack) : ToSet(stack'[i].deps) \subseteq ToSet(stack[i].deps)
      <3>1. stack'[Len(stack)].node = Top.node /\ stack'[Len(stack)].deps = Tail(Top.deps)
        BY <2>1
      <3>2. \A i \in 1..Len(stack) : i = Len(stack) \/ i \in 1..(Len(stack) - 1)
        BY <1>1
      <3>3. QED BY <1>1, <2>1, <3>1, <3>2
    <2>3. Linked'
      <3>1. Len(stack') = Len(stack)
        BY <2>1
      <3>2. \A i \in 1..(Len(stack) - 1) : i \in 1..Len(stack) /\ i + 1 \in 1..Len(stack)
        BY <1>1
      <3>3. ASSUME NEW i \in 1..Len(stack)
            PROVE  /\ stack'[i].node \in Resolved
                   /\ ToSet(stack'[i].deps) \subseteq Needs(stack'[i].node)
        BY <2>2 DEF Linked
      <3>4. ASSUME NEW i \in 1..(Len(stack) - 1)
            PROVE  stack'[i + 1].node \in Needs(stack'[i].node)
        BY <2>2, <3>2 DEF Linked
      <3>5. QED BY <1>2, <3>1, <3>3, <3>4, LinkedNext
    <2>4. QED BY <1>1, <2>1, <2>2, <2>3 DEF TypeOK
  <1>5. CASE Top.deps # <<>> /\ Enter(Head(Top.deps))
    <2> DEFINE d == Head(Top.deps)
               n == Len(stack)
    <2>1. /\ stack' \in Seq(Frames) /\ Len(stack') = n + 1
          /\ \A i \in 1..(n - 1) : stack'[i] = stack[i]
          /\ stack'[n] = [node |-> Top.node, deps |-> Tail(Top.deps)]
          /\ stack'[n + 1] = [node |-> d, deps |-> requires[d]]
          /\ d \in Projects
      BY <1>5, EnterMoves
    <2>2. /\ d \in Resolved /\ visited' = visited \cup {d} /\ d \in Mods
          /\ d \in ToSet(Top.deps) /\ ToSet(Tail(Top.deps)) \subseteq ToSet(Top.deps)
      BY <1>5, <2>1, AdvanceMoves DEF Enter, Mods
    <2>3. /\ \A i \in 1..n : stack'[i].node = stack[i].node
          /\ \A i \in 1..n : ToSet(stack'[i].deps) \subseteq ToSet(stack[i].deps)
          /\ stack'[n + 1].node = d /\ ToSet(stack'[n + 1].deps) = Needs(d)
      <3>1. \A i \in 1..(n - 1) : stack'[i] = stack[i]
        BY <2>1
      <3>2. stack'[n].node = stack[n].node /\ stack'[n].deps = Tail(stack[n].deps)
        BY <1>1, <2>1
      <3>3. ToSet(stack'[n].deps) \subseteq ToSet(stack[n].deps)
        BY <1>1, <2>2, <3>2
      <3>4. stack'[n + 1].node = d /\ stack'[n + 1].deps = requires[d]
        BY <2>1
      <3>5. \A i \in 1..n : i = n \/ i \in 1..(n - 1)
        BY <1>1
      <3>6. QED BY <3>1, <3>2, <3>3, <3>4, <3>5 DEF Needs
    <2>4. Linked'
      <3>1. ASSUME NEW i \in 1..(n + 1)
            PROVE  /\ stack'[i].node \in Resolved
                   /\ ToSet(stack'[i].deps) \subseteq Needs(stack'[i].node)
        <4>1. CASE i \in 1..n
          BY <2>3, <4>1 DEF Linked
        <4>2. CASE i = n + 1
          BY <2>2, <2>3, <4>2
        <4>3. QED BY <1>1, <4>1, <4>2
      <3>2. ASSUME NEW i \in 1..n
            PROVE  stack'[i + 1].node \in Needs(stack'[i].node)
        <4>1. CASE i = n
          BY <1>1, <1>2, <2>2, <2>3, <4>1
        <4>2. CASE i # n
          BY <1>1, <2>3, <4>2 DEF Linked
        <4>3. QED BY <4>1, <4>2
      <3>3. Len(stack') = n + 1 /\ Len(stack') - 1 = n
        BY <1>1, <2>1
      <3>4. QED BY <1>2, <3>1, <3>2, <3>3, LinkedNext
    <2>5. QED BY <1>1, <2>1, <2>2, <2>3, <2>4 DEF TypeOK
  <1>6. QED BY <1>3, <1>4, <1>5 DEF Moved

\* What the chain of a dropped mod is made of.
Base(d) == IF d \in failed THEN <<d>> ELSE chain[d]

LEMMA ChainFacts ==
    ASSUME TypeOK, stack # <<>>, NEW d \in Mods, d \in Missing
    PROVE  /\ Base(d) \in Seq(Mods) /\ Len(Base(d)) \in Nat \ {0}
           /\ ChainFrom(d) \in Seq(Mods)
           /\ Len(ChainFrom(d)) = Len(Base(d)) + Len(stack)
           /\ \A i \in 1..Len(Base(d)) : ChainFrom(d)[i] = Base(d)[i]
           /\ \A i \in 1..Len(stack) :
                ChainFrom(d)[Len(Base(d)) + i] = Path[(Len(stack) - i) + 1]
  <1>1. Base(d) \in Seq(Mods) /\ Base(d) # <<>>
    BY DEF TypeOK, Base, Missing, Cascaded
  <1>2. Len(Base(d)) \in Nat \ {0}
    BY <1>1, EmptySeq
  <1>3. /\ Path \in Seq(Mods) /\ Len(Path) = Len(stack) /\ Len(stack) \in Nat
        /\ \A i \in 1..Len(stack) : Path[i] \in Mods
    BY StackFacts, LenProperties
  <1>4. Reverse(Path) = [i \in 1..Len(stack) |-> Path[(Len(stack) - i) + 1]]
    BY <1>3 DEF Reverse
  <1>5. \A i \in 1..Len(stack) : (Len(stack) - i) + 1 \in 1..Len(stack)
    BY <1>3
  <1>6. Reverse(Path) \in Seq(Mods) /\ Len(Reverse(Path)) = Len(stack)
    BY <1>3, <1>4, <1>5
  <1>7. ChainFrom(d) = Base(d) \o Reverse(Path)
    BY DEF ChainFrom, Base
  <1> DEFINE b == Base(d)
             r == Reverse(Path)
  <1>8. b \in Seq(Mods) /\ r \in Seq(Mods)
    BY <1>1, <1>6
  <1> HIDE DEF b, r
  <1>9. b \o r \in Seq(Mods) /\ Len(b \o r) = Len(b) + Len(r)
    BY <1>8, Joined
  <1>10. \A i \in 1..Len(b) : (b \o r)[i] = b[i]
    BY <1>8, Joined
  <1>11. \A i \in 1..Len(r) : (b \o r)[Len(b) + i] = r[i]
    BY <1>8, Joined
  <1>12. \A i \in 1..Len(stack) : r[i] = Path[(Len(stack) - i) + 1]
    BY <1>4 DEF r
  <1>13. ChainFrom(d) = b \o r /\ Len(r) = Len(stack) /\ b = Base(d)
    BY <1>6, <1>7 DEF b, r
  <1>14. QED BY <1>1, <1>2, <1>9, <1>10, <1>11, <1>12, <1>13

\* The dependencies that join the queue.
Items == [key : Projects, seeded : BOOLEAN]

LEMMA QueueFacts ==
    ASSUME NEW q \in Seq(Items), NEW deps \in Seq(Projects)
    PROVE  LET more == [i \in DOMAIN deps |-> Item(deps[i], FALSE)]
           IN  /\ more \in Seq(Items) /\ Len(more) = Len(deps)
               /\ q \o more \in Seq(Items) /\ Len(q \o more) = Len(q) + Len(deps)
               /\ Len(q) \in Nat /\ Len(deps) \in Nat
               /\ \A i \in 1..Len(q) : (q \o more)[i] = q[i]
               /\ \A i \in 1..Len(deps) :
                    (q \o more)[Len(q) + i] = [key |-> deps[i], seeded |-> FALSE]
  <1> DEFINE more == [i \in DOMAIN deps |-> Item(deps[i], FALSE)]
  <1>1. /\ Len(deps) \in Nat /\ DOMAIN deps = 1..Len(deps)
        /\ \A i \in 1..Len(deps) : deps[i] \in Projects
    BY LenProperties
  <1>2. /\ more \in Seq(Items) /\ Len(more) = Len(deps)
        /\ \A i \in 1..Len(deps) : more[i] = [key |-> deps[i], seeded |-> FALSE]
    BY <1>1 DEF Items, Item
  <1> HIDE DEF more
  <1>3. q \o more \in Seq(Items) /\ Len(q) \in Nat /\ Len(q \o more) = Len(q) + Len(more)
    BY <1>2, Joined
  <1>4. \A i \in 1..Len(q) : (q \o more)[i] = q[i]
    BY <1>2, Joined
  <1>5. \A i \in 1..Len(more) : (q \o more)[Len(q) + i] = more[i]
    BY <1>2, Joined
  <1>6. \A i \in 1..Len(deps) : (q \o more)[Len(q) + i] = [key |-> deps[i], seeded |-> FALSE]
    BY <1>2, <1>5
  <1>7. /\ more \in Seq(Items) /\ Len(more) = Len(deps)
        /\ q \o more \in Seq(Items) /\ Len(q \o more) = Len(q) + Len(deps)
        /\ Len(q) \in Nat /\ Len(deps) \in Nat
        /\ \A i \in 1..Len(q) : (q \o more)[i] = q[i]
        /\ \A i \in 1..Len(deps) :
             (q \o more)[Len(q) + i] = [key |-> deps[i], seeded |-> FALSE]
    BY <1>1, <1>2, <1>3, <1>4, <1>6
  <1>8. QED BY <1>7 DEF more

----------------------------------------------------------------------------
(* The basic invariant. *)

LEMMA InitBasic ==
    ASSUME Init PROVE Basic
  <1>1. <<>> \in Seq(Mods) /\ Len(<<>>) = 0 /\ DOMAIN <<>> = {}
    BY EmptySeq
  <1>2. IsInjective(<<>>) /\ ToSet(<<>>) = {}
    BY DEF IsInjective, ToSet
  <1>3. Resolved = {} /\ Cascaded = {} /\ Missing = {}
    BY <1>2 DEF Init, Resolved, Cascaded, Missing
  <1>4. TypeOK
    <2>1. /\ <<>> \in Seq([key : Projects, seeded : BOOLEAN])
          /\ <<>> \in Seq([node : Mods, deps : Seq(Projects)])
      BY EmptySeq
    <2>2. requires \in [Mods -> DepLists \cup {<<>>}] /\ chain \in [Mods -> Seq(Mods)]
      BY <1>1 DEF Init
    <2>3. pc = "seed" /\ report = None /\ visited = {} /\ changed = FALSE
      BY DEF Init
    <2>4. work = <<>> /\ resolved = <<>> /\ roots = <<>> /\ stack = <<>> /\ cycle = <<>>
      BY DEF Init
    <2>5. /\ seeds \in SeedLists /\ inHouse \in BuiltLists
          /\ unknown \subseteq Files \ ToSet(inHouse) /\ extra = {} /\ failed = {}
      BY DEF Init
    <2>6. QED BY <1>1, <1>2, <1>3, <2>1, <2>2, <2>3, <2>4, <2>5 DEF TypeOK
  <1>5. Quiet
    BY <1>3 DEF Init, Quiet
  <1>6. Looping
    BY <1>2, <1>3 DEF Init, Looping
  <1>7. Linked
    BY DEF Init, Linked
  <1>8. QED BY <1>4, <1>5, <1>6, <1>7 DEF Basic

\* No mod of a loop's list is in two places.
LEMMA InjectiveEmpty == IsInjective(<<>>) /\ ToSet(<<>>) = {}
  BY DEF IsInjective, ToSet

LEMMA SeedBasic ==
    ASSUME Basic, SeedPhase PROVE Basic'
  <1>1. /\ seeds \in Seq(Projects) /\ inHouse \in Seq(Files) /\ IsInjective(inHouse)
        /\ ToSet(inHouse) \subseteq Files
    <2>1. seeds \in SeedLists /\ inHouse \in BuiltLists
      BY DEF Basic, TypeOK
    <2>2. seeds \in Seq(Projects) /\ inHouse \in Seq(Files) /\ IsInjective(inHouse)
      BY <2>1, ResolverAssumption
    <2>3. DOMAIN inHouse = 1..Len(inHouse) /\ \A i \in 1..Len(inHouse) : inHouse[i] \in Files
      BY <2>2, LenProperties
    <2>4. QED BY <2>2, <2>3 DEF ToSet
  <1>2. work' \in Seq(Items)
    <2>1. /\ Len(seeds) \in Nat /\ DOMAIN seeds = 1..Len(seeds)
          /\ \A i \in 1..Len(seeds) : seeds[i] \in Projects
      BY <1>1, LenProperties
    <2>2. QED BY <2>1 DEF SeedPhase, Items, Item
  <1>3. resolved' \in Seq(Mods)
    BY <1>1, SeqMonotonic DEF SeedPhase, Mods
  <1>4. /\ Resolved' = ToSet(inHouse) /\ Cascaded = {} /\ Cascaded' = {}
        /\ failed' = unknown /\ unknown \subseteq Files \ ToSet(inHouse)
    BY DEF Basic, Quiet, TypeOK, SeedPhase, Resolved, Cascaded
  <1>5. /\ stack = <<>> /\ stack' = <<>> /\ visited' = {} /\ roots' = <<>> /\ extra' = extra
        /\ report' = None /\ changed' = changed /\ cycle' = cycle /\ chain' = chain
        /\ requires' = requires /\ seeds' = seeds /\ inHouse' = inHouse
        /\ unknown' = unknown /\ pc' = "closure" /\ resolved' = inHouse
    BY DEF Basic, Quiet, SeedPhase, searchVars, endVars, inputVars
  <1>6. TypeOK'
    <2>1. (Resolved \cap Missing)' = {} /\ (failed \cap Cascaded)' = {}
      BY <1>4 DEF Missing
    <2>2. <<>> \in Seq(Mods) /\ <<>> \in Seq([node : Mods, deps : Seq(Projects)])
      BY EmptySeq
    <2>3. QED BY <1>1, <1>2, <1>3, <1>4, <1>5, <2>1, <2>2 DEF Basic, TypeOK, Items, Mods
  <1>7. Quiet'
    BY <1>4, <1>5 DEF Quiet
  <1>8. Looping'
    BY <1>5, InjectiveEmpty DEF Looping
  <1>9. Linked'
    BY <1>5 DEF Linked
  <1>10. QED BY <1>6, <1>7, <1>8, <1>9 DEF Basic

LEMMA SkipBasic ==
    ASSUME Basic, SkipKnown PROVE Basic'
  <1>1. work \in Seq(Items) /\ work # <<>> /\ Tail(work) \in Seq(Items)
    BY TailSet DEF Basic, TypeOK, SkipKnown, Items
  <1>2. /\ work' = Tail(work)
        /\ UNCHANGED <<pc, inputVars, foundVars, chain, searchVars, endVars>>
    BY DEF SkipKnown
  <1>3. TypeOK'
    BY <1>1, <1>2 DEF Basic, TypeOK, Items, inputVars, foundVars, searchVars, endVars,
         Resolved, Missing, Cascaded
  <1>4. Quiet' /\ Looping'
    BY <1>2 DEF Basic, Quiet, Looping, foundVars, searchVars, endVars, Resolved, Cascaded
  <1>5. Linked'
    BY <1>2 DEF Basic, Linked, foundVars, searchVars, Resolved, Needs
  <1>6. QED BY <1>3, <1>4, <1>5 DEF Basic

LEMMA AskedFacts ==
    ASSUME Basic, Asked
    PROVE  /\ work \in Seq(Items) /\ work # <<>> /\ Tail(work) \in Seq(Items)
           /\ Head(work) \in Items /\ Head(work).key \in Projects
           /\ Head(work).key \notin Resolved \cup Missing
           /\ pc = "closure" /\ Cascaded = {} /\ report = None
           /\ stack = <<>> /\ visited = {} /\ roots = <<>>
  <1>1. work \in Seq(Items) /\ work # <<>>
    BY DEF Basic, TypeOK, Asked, Items
  <1>2. Head(work) \in Items /\ Tail(work) \in Seq(Items)
    BY <1>1, TailSet
  <1>3. QED BY <1>1, <1>2 DEF Basic, Quiet, Asked, Known, Items

LEMMA NoVersionBasic ==
    ASSUME Basic, NoCompatibleVersion PROVE Basic'
  <1> DEFINE m == Head(work).key
  <1>1. /\ Tail(work) \in Seq(Items) /\ m \in Projects /\ m \notin Resolved \cup Missing
        /\ Cascaded = {} /\ stack = <<>> /\ roots = <<>> /\ pc = "closure"
    BY AskedFacts DEF NoCompatibleVersion
  <1>2. /\ work' = Tail(work) /\ failed' = failed \cup {m}
        /\ UNCHANGED <<pc, inputVars, resolved, requires, extra, chain, searchVars, endVars>>
    BY DEF NoCompatibleVersion
  <1>3. /\ Resolved' = Resolved /\ Cascaded' = Cascaded /\ m \in Mods
        /\ Missing' = Missing \cup {m}
    BY <1>1, <1>2 DEF Resolved, Cascaded, Missing, Mods
  <1>4. (Resolved \cap Missing)' = {} /\ (failed \cap Cascaded)' = {} /\ failed' \subseteq Mods
    BY <1>1, <1>2, <1>3 DEF Basic, TypeOK
  <1>5. TypeOK'
    BY <1>1, <1>2, <1>4 DEF Basic, TypeOK, Items, inputVars, searchVars, endVars
  <1>6. Quiet' /\ Looping'
    BY <1>1, <1>2, <1>3 DEF Basic, Quiet, Looping, searchVars, endVars
  <1>7. Linked'
    BY <1>1, <1>2 DEF Linked, searchVars
  <1>8. QED BY <1>5, <1>6, <1>7 DEF Basic

LEMMA RecordBasic ==
    ASSUME Basic, NEW deps \in DepLists, RecordResolved(deps) PROVE Basic'
  <1> DEFINE m == Head(work).key
             more == [i \in DOMAIN deps |-> Item(deps[i], FALSE)]
  <1>1. /\ Tail(work) \in Seq(Items) /\ m \in Projects /\ m \notin Resolved \cup Missing
        /\ Cascaded = {} /\ stack = <<>> /\ roots = <<>> /\ pc = "closure"
    BY AskedFacts DEF RecordResolved
  <1>2. /\ resolved' = Append(resolved, m)
        /\ requires' = [requires EXCEPT ![m] = deps]
        /\ extra' = IF Head(work).seeded THEN extra ELSE extra \cup {m}
        /\ work' = Tail(work) \o more
        /\ UNCHANGED <<pc, inputVars, failed, chain, searchVars, endVars>>
    BY DEF RecordResolved
  <1>3. deps \in Seq(Projects) /\ m \in Mods
    BY <1>1, ResolverAssumption DEF Mods
  <1>4. work' \in Seq(Items)
    BY <1>1, <1>2, <1>3, QueueFacts
  <1>5. /\ resolved' \in Seq(Mods) /\ Resolved' = Resolved \cup {m}
        /\ IsInjective(resolved')
    BY <1>1, <1>2, <1>3, AppendSet DEF Basic, TypeOK, Resolved
  <1>6. Cascaded' = Cascaded /\ Missing' = Missing
    BY <1>2 DEF Cascaded, Missing
  <1>7. requires' \in [Mods -> DepLists \cup {<<>>}]
    BY <1>2, <1>3 DEF Basic, TypeOK
  <1>8. extra' \subseteq Projects
    BY <1>1, <1>2 DEF Basic, TypeOK
  <1>9. (Resolved \cap Missing)' = {} /\ (failed \cap Cascaded)' = {}
    BY <1>1, <1>2, <1>5, <1>6 DEF Basic, TypeOK
  <1>10. TypeOK'
    BY <1>2, <1>4, <1>5, <1>7, <1>8, <1>9
       DEF Basic, TypeOK, Items, inputVars, searchVars, endVars
  <1>11. Quiet' /\ Looping'
    <2>1. roots' = <<>> /\ ToSet(roots') = {} /\ IsInjective(roots')
      BY <1>1, <1>2, InjectiveEmpty DEF searchVars
    <2>2. Looping'
      BY <1>1, <1>2, <2>1 DEF Looping, searchVars
    <2>3. Quiet'
      BY <1>1, <1>2, <1>6 DEF Basic, Quiet, searchVars, endVars
    <2>4. QED BY <2>2, <2>3
  <1>12. Linked'
    BY <1>1, <1>2 DEF Linked, searchVars
  <1>13. QED BY <1>10, <1>11, <1>12 DEF Basic

\* The steps of the searches leave what was found as it is.
Reports == [status : {"complete", "paused_awaiting_acknowledgment", "failed"},
            policy : Policies, skipped : Skips, shipped : SUBSET Mods,
            lost : SUBSET Mods, cascade : SUBSET Mods]

LEMMA SearchTypes ==
    ASSUME TypeOK, UNCHANGED <<inputVars, work, foundVars, chain>>,
           pc' \in {"seed", "closure", "cycle", "cascade", "done", "cyclic", "aborted"},
           roots' \in Seq(Mods), stack' \in Seq(Frames), visited' \subseteq Mods,
           changed' \in BOOLEAN, cycle' \in Seq(Mods),
           report' # None => report' \in Reports
    PROVE  TypeOK'
  <1>1. /\ Resolved' = Resolved /\ Cascaded' = Cascaded /\ Missing' = Missing
    BY DEF foundVars, Resolved, Cascaded, Missing
  <1>2. QED BY <1>1 DEF TypeOK, inputVars, foundVars, Frames, Reports

\* A search begins.
LEMMA RootFacts ==
    ASSUME Basic, NEW m \in Resolved, UNCHANGED foundVars, stack' = <<Frame(m)>>
    PROVE  /\ stack' \in Seq(Frames) /\ m \in Mods /\ Linked'
           /\ stack'[1].node = m /\ Len(stack') = 1
  <1>1. m \in Mods
    BY LenProperties DEF Basic, TypeOK, Resolved, ToSet
  <1>2. requires[m] \in Seq(Projects)
    BY <1>1, StackFacts DEF Basic
  <1>3. /\ stack' = <<[node |-> m, deps |-> requires[m]]>> /\ Len(stack') = 1
        /\ stack'[1] = [node |-> m, deps |-> requires[m]]
    BY DEF Frame
  <1>4. [node |-> m, deps |-> requires[m]] \in Frames
    BY <1>1, <1>2 DEF Frames
  <1>5. stack' \in Seq(Frames)
    BY <1>3, <1>4
  <1>6. stack'[1].node = m /\ ToSet(stack'[1].deps) = Needs(m)
    BY <1>3 DEF Needs
  <1>7. Linked'
    <2>1. \A i \in 1..Len(stack') : i = 1
      BY <1>3
    <2>2. \A i \in 1..(Len(stack') - 1) : FALSE
      BY <1>3
    <2>3. resolved' = resolved /\ requires' = requires
      BY DEF foundVars
    <2>4. QED BY <1>6, <2>1, <2>2, <2>3, LinkedNext
  <1>8. QED BY <1>1, <1>3, <1>5, <1>6, <1>7

LEMMA EmptyLinked ==
    ASSUME stack' = <<>> PROVE Linked'
  BY DEF Linked

LEMMA SameLinked ==
    ASSUME Linked, UNCHANGED <<stack, foundVars>> PROVE Linked'
  BY DEF Linked, foundVars, Resolved, Needs

LEMMA ClosureEndsBasic ==
    ASSUME Basic, ClosureEnds PROVE Basic'
  <1>1. /\ pc = "closure" /\ pc' = "cycle" /\ roots' = resolved
        /\ stack = <<>> /\ visited = {} /\ Cascaded = {} /\ report = None
        /\ UNCHANGED <<inputVars, work, foundVars, chain, stack, visited, changed, endVars>>
    BY DEF Basic, Quiet, ClosureEnds
  <1>2. Cascaded' = Cascaded /\ Resolved' = Resolved /\ ToSet(roots') = Resolved
    BY <1>1 DEF foundVars, Cascaded, Resolved
  <1>3. TypeOK'
    BY <1>1, SearchTypes DEF Basic, TypeOK, endVars, Frames
  <1>4. Quiet'
    BY <1>1, <1>2 DEF Quiet, endVars
  <1>5. Looping'
    BY <1>1, <1>2 DEF Basic, TypeOK, Looping
  <1>6. Linked'
    BY <1>1, EmptyLinked
  <1>7. QED BY <1>3, <1>4, <1>5, <1>6 DEF Basic

\* The next of the loop.
LEMMA NextRoot ==
    ASSUME Basic, roots # <<>>, roots' = Tail(roots), UNCHANGED foundVars
    PROVE  /\ Head(roots) \in Resolved /\ Head(roots) \in Mods
           /\ Tail(roots) \in Seq(Mods) /\ IsInjective(roots')
           /\ ToSet(roots') \subseteq Resolved' /\ Head(roots) \notin ToSet(roots')
  <1>1. /\ Head(roots) \in Mods /\ Tail(roots) \in Seq(Mods)
        /\ ToSet(roots) = {Head(roots)} \cup ToSet(Tail(roots))
        /\ IsInjective(Tail(roots)) /\ Head(roots) \notin ToSet(Tail(roots))
    BY TailSet DEF Basic, TypeOK, Looping
  <1>2. Resolved' = Resolved /\ ToSet(roots) \subseteq Resolved
    BY DEF Basic, Looping, foundVars, Resolved
  <1>3. QED BY <1>1, <1>2

LEMMA CycleRootBasic ==
    ASSUME Basic, CycleRoot PROVE Basic'
  <1>1. /\ pc = "cycle" /\ pc' = pc /\ stack = <<>> /\ roots # <<>> /\ roots' = Tail(roots)
        /\ UNCHANGED <<inputVars, work, foundVars, chain, changed, endVars>>
        /\ Cascaded = {} /\ report = None
    BY DEF Basic, Quiet, CycleRoot
  <1>2. /\ Head(roots) \in Resolved /\ Head(roots) \in Mods
        /\ Tail(roots) \in Seq(Mods) /\ IsInjective(roots')
        /\ ToSet(roots') \subseteq Resolved'
    BY <1>1, NextRoot
  <1>3. stack' \in Seq(Frames) /\ visited' \subseteq Mods /\ Linked'
    <2>1. CASE Head(roots) \in visited
      <3>1. stack' = <<>> /\ visited' = visited
        BY <1>1, <2>1 DEF CycleRoot
      <3>2. QED BY <3>1, EmptyLinked, EmptySeq DEF Basic, TypeOK
    <2>2. CASE Head(roots) \notin visited
      <3>1. stack' = <<Frame(Head(roots))>> /\ visited' = visited \cup {Head(roots)}
        BY <2>2 DEF CycleRoot
      <3>2. QED BY <1>1, <1>2, <3>1, RootFacts DEF Basic, TypeOK
    <2>3. QED BY <2>1, <2>2
  <1>4. Cascaded' = Cascaded
    BY <1>1 DEF Cascaded
  <1>5. TypeOK'
    BY <1>1, <1>2, <1>3, SearchTypes DEF Basic, TypeOK, endVars
  <1>6. Quiet' /\ Looping'
    BY <1>1, <1>2, <1>4 DEF Quiet, Looping, endVars
  <1>7. QED BY <1>3, <1>5, <1>6 DEF Basic

LEMMA SearchBasic ==
    ASSUME Basic, CycleSearch \/ CascadeSearch PROVE Basic'
  <1>1. /\ pc \in {"cycle", "cascade"} /\ pc' = pc /\ stack # <<>> /\ Moved
        /\ UNCHANGED <<inputVars, work, foundVars, chain, roots, changed, endVars>>
    BY DEF CycleSearch, CascadeSearch, Search, Moved
  <1>2. /\ stack' \in Seq(Frames) /\ visited' \subseteq Mods /\ Linked'
        /\ stack' # <<>> => stack'[1].node = stack[1].node
    BY <1>1, Moves DEF Basic, foundVars
  <1>3. Cascaded' = Cascaded /\ Resolved' = Resolved
    BY <1>1 DEF Cascaded, Resolved, foundVars
  <1>4. TypeOK'
    BY <1>1, <1>2, SearchTypes DEF Basic, TypeOK, endVars, Reports
  <1>5. Quiet'
    BY <1>1, <1>3 DEF Basic, Quiet, endVars
  <1>6. Looping'
    BY <1>1, <1>2, <1>3 DEF Basic, Looping
  <1>7. QED BY <1>2, <1>4, <1>5, <1>6 DEF Basic

LEMMA NoCycleBasic ==
    ASSUME Basic, NoCycle PROVE Basic'
  <1>1. /\ pc = "cycle" /\ pc' = "cascade" /\ stack = <<>> /\ roots = <<>> /\ changed'
        /\ changed' \in BOOLEAN /\ Cascaded = {} /\ report = None
        /\ UNCHANGED <<inputVars, work, foundVars, chain, roots, stack, visited, endVars>>
    BY DEF Basic, Quiet, NoCycle
  <1>2. Cascaded' = Cascaded /\ Resolved' = Resolved
    BY <1>1 DEF Cascaded, Resolved, foundVars
  <1>3. TypeOK'
    BY <1>1, SearchTypes DEF Basic, TypeOK, endVars, Frames
  <1>4. Quiet' /\ Looping'
    BY <1>1, <1>2 DEF Basic, Quiet, Looping, endVars
  <1>5. QED BY <1>1, <1>3, <1>4, EmptyLinked DEF Basic

LEMMA RoundBasic ==
    ASSUME Basic, CascadeRound PROVE Basic'
  <1>1. /\ pc = "cascade" /\ pc' = pc /\ stack = <<>> /\ roots' = resolved
        /\ changed' = FALSE /\ report = None
        /\ UNCHANGED <<inputVars, work, foundVars, chain, stack, visited, endVars>>
    BY DEF Basic, Quiet, CascadeRound
  <1>2. Cascaded' = Cascaded /\ Resolved' = Resolved /\ ToSet(roots') = Resolved
    BY <1>1 DEF Cascaded, Resolved, foundVars
  <1>3. TypeOK'
    BY <1>1, SearchTypes DEF Basic, TypeOK, endVars, Frames
  <1>4. Quiet' /\ Looping'
    BY <1>1, <1>2 DEF Basic, TypeOK, Quiet, Looping, endVars
  <1>5. QED BY <1>1, <1>3, <1>4, EmptyLinked DEF Basic

LEMMA CascadeRootBasic ==
    ASSUME Basic, CascadeRoot PROVE Basic'
  <1>1. /\ pc = "cascade" /\ pc' = pc /\ stack = <<>> /\ roots # <<>>
        /\ roots' = Tail(roots) /\ stack' = <<Frame(Head(roots))>>
        /\ visited' = {Head(roots)} /\ report = None
        /\ UNCHANGED <<inputVars, work, foundVars, chain, changed, endVars>>
    BY DEF Basic, Quiet, CascadeRoot
  <1>2. /\ Head(roots) \in Resolved /\ Head(roots) \in Mods
        /\ Tail(roots) \in Seq(Mods) /\ IsInjective(roots')
        /\ ToSet(roots') \subseteq Resolved' /\ Head(roots) \notin ToSet(roots')
    BY <1>1, NextRoot
  <1>3. stack' \in Seq(Frames) /\ Linked' /\ stack'[1].node = Head(roots)
    BY <1>1, <1>2, RootFacts
  <1>4. Cascaded' = Cascaded
    BY <1>1 DEF Cascaded
  <1>5. TypeOK'
    BY <1>1, <1>2, <1>3, SearchTypes DEF Basic, TypeOK, endVars
  <1>6. Quiet' /\ Looping'
    BY <1>1, <1>2, <1>3, <1>4 DEF Quiet, Looping, endVars
  <1>7. QED BY <1>3, <1>5, <1>6 DEF Basic

LEMMA CycleFoundBasic ==
    ASSUME Basic, CycleFound PROVE Basic'
  <1>1. /\ pc = "cycle" /\ pc' = "cyclic" /\ report = None /\ Cascaded = {}
        /\ UNCHANGED <<inputVars, work, foundVars, chain, searchVars, report>>
        /\ stack # <<>> /\ Path \in Seq(Mods) /\ DOMAIN Path = 1..Len(stack)
        /\ Len(stack) \in Nat /\ Len(Path) = Len(stack)
    BY StackFacts DEF Basic, Quiet, CycleFound, Found
  <1>2. PICK i \in DOMAIN Path : cycle' = Append(SubSeq(Path, i, Len(Path)), Path[i])
    BY DEF CycleFound
  <1>3. cycle' \in Seq(Mods)
    <2>1. i \in 1..Len(Path) /\ Path[i] \in Mods
      BY <1>1, LenProperties
    <2>2. SubSeq(Path, i, Len(Path)) \in Seq(Mods)
      BY <1>1, <2>1, SubSeqProperties
    <2>3. QED BY <1>2, <2>1, <2>2, AppendProperties
  <1>4. Cascaded' = Cascaded /\ Resolved' = Resolved
    BY <1>1 DEF Cascaded, Resolved, foundVars
  <1>5. TypeOK'
    BY <1>1, <1>3, SearchTypes DEF Basic, TypeOK, searchVars, Frames
  <1>6. Quiet' /\ Looping'
    BY <1>1, <1>4 DEF Basic, Quiet, Looping, searchVars
  <1>7. Linked'
    BY <1>1, SameLinked DEF Basic, searchVars
  <1>8. QED BY <1>5, <1>6, <1>7 DEF Basic

\* What a round drops: the mod that the search began with.
LEMMA Dropped ==
    ASSUME Basic, CascadeFound
    PROVE  LET m == Head(Path)
               d == Head(Top.deps)
           IN  /\ m \in Resolved /\ m \in Mods /\ m = Path[1] /\ m = stack[1].node
               /\ m \notin Missing /\ m \notin ToSet(roots)
               /\ d \in Missing /\ d \in Mods
               /\ resolved' \in Seq(Mods) /\ Resolved' = Resolved \ {m}
               /\ IsInjective(resolved')
               /\ ChainFrom(d) \in Seq(Mods) /\ ChainFrom(d) # <<>>
               /\ chain' = [chain EXCEPT ![m] = ChainFrom(d)]
               /\ Cascaded' = Cascaded \cup {m} /\ Missing' = Missing \cup {m}
  <1> DEFINE m == Head(Path)
             d == Head(Top.deps)
  <1>1. /\ pc = "cascade" /\ stack # <<>> /\ Top.deps # <<>> /\ d \in Missing
        /\ UNCHANGED <<inputVars, work, requires, extra, failed, roots, visited, endVars>>
    BY DEF CascadeFound, Found, Gone
  <1>2. /\ Path \in Seq(Mods) /\ Len(Path) = Len(stack) /\ Len(stack) \in 1..Len(stack)
        /\ \A i \in 1..Len(stack) : Path[i] = stack[i].node
        /\ \A i \in 1..Len(stack) : stack[i] \in Frames
    BY <1>1, StackFacts DEF Basic
  <1>3. m = Path[1] /\ m = stack[1].node /\ m \in Resolved /\ m \in Mods
    BY <1>2 DEF Basic, Linked, Frames
  <1>4. d \in Mods
    BY <1>1, AdvanceMoves DEF Basic, Mods
  <1>5. m \notin Missing /\ m \notin ToSet(roots)
    BY <1>1, <1>3 DEF Basic, TypeOK, Looping
  <1>6. PICK i \in DOMAIN resolved :
          /\ resolved[i] = m /\ resolved' = RemoveAt(resolved, i)
          /\ chain' = [chain EXCEPT ![m] = ChainFrom(d)]
    BY DEF CascadeFound
  <1>7. /\ resolved' \in Seq(Mods) /\ Resolved' = Resolved \ {m}
        /\ IsInjective(resolved')
    BY <1>6, RemoveAtSet DEF Basic, TypeOK, Resolved
  <1>8. ChainFrom(d) \in Seq(Mods) /\ Len(ChainFrom(d)) # 0
    BY <1>1, <1>2, <1>4, ChainFacts DEF Basic
  <1>9. ChainFrom(d) # <<>>
    BY <1>8, EmptySeq
  <1>10. Cascaded' = Cascaded \cup {m}
    BY <1>3, <1>6, <1>9 DEF Basic, TypeOK, Cascaded
  <1>11. Missing' = Missing \cup {m}
    BY <1>1, <1>10 DEF Missing
  <1>12. QED
    BY <1>1, <1>3, <1>4, <1>5, <1>6, <1>7, <1>8, <1>9, <1>10, <1>11

LEMMA DropBasic ==
    ASSUME Basic, CascadeFound PROVE Basic'
  <1> DEFINE m == Head(Path)
             d == Head(Top.deps)
  <1>1. /\ m \in Resolved /\ m \in Mods /\ m \notin Missing /\ m \notin ToSet(roots)
        /\ resolved' \in Seq(Mods) /\ Resolved' = Resolved \ {m} /\ IsInjective(resolved')
        /\ ChainFrom(d) \in Seq(Mods) /\ chain' = [chain EXCEPT ![m] = ChainFrom(d)]
        /\ Cascaded' = Cascaded \cup {m} /\ Missing' = Missing \cup {m}
    BY Dropped
  <1>2. /\ pc = "cascade" /\ pc' = pc /\ stack' = <<>> /\ changed' = TRUE /\ report = None
        /\ UNCHANGED <<inputVars, work, requires, extra, failed, roots, visited, endVars>>
    BY DEF Basic, Quiet, CascadeFound, Found
  <1> HIDE DEF m, d
  <1>3. chain' \in [Mods -> Seq(Mods)]
    BY <1>1 DEF Basic, TypeOK
  <1>4. (Resolved \cap Missing)' = {} /\ (failed \cap Cascaded)' = {}
    BY <1>1, <1>2 DEF Basic, TypeOK, Missing
  <1>5. stack' \in Seq([node : Mods, deps : Seq(Projects)])
    BY <1>2, EmptySeq
  <1>6. TypeOK'
    BY <1>1, <1>2, <1>3, <1>4, <1>5 DEF Basic, TypeOK, inputVars, endVars
  <1>7. Quiet' /\ Looping'
    BY <1>1, <1>2 DEF Basic, Quiet, Looping, endVars
  <1>8. QED BY <1>2, <1>6, <1>7, EmptyLinked DEF Basic

LEMMA ReportBasic ==
    ASSUME Basic, BuildReport PROVE Basic'
  <1>1. /\ pc = "cascade" /\ pc' = "done" /\ stack = <<>> /\ roots = <<>>
        /\ UNCHANGED <<inputVars, work, foundVars, chain, searchVars, cycle>>
    BY DEF BuildReport
  <1>2. PICK policy \in Policies, skipped \in Skips :
          report' = [status |-> Status(policy), policy |-> policy, skipped |-> skipped,
                     shipped |-> Resolved \ skipped, lost |-> failed,
                     cascade |-> Cascaded]
    BY DEF BuildReport
  <1>3. Status(policy) \in {"complete", "paused_awaiting_acknowledgment", "failed"}
    BY ResolverAssumption DEF Status
  <1>4. Resolved \subseteq Mods /\ failed \subseteq Mods /\ Cascaded \subseteq Mods
    BY LenProperties DEF Basic, TypeOK, Resolved, ToSet, Cascaded
  <1>5. report' \in Reports
    BY <1>2, <1>3, <1>4 DEF Reports
  <1>6. TypeOK'
    BY <1>1, <1>5, SearchTypes DEF Basic, TypeOK, searchVars, Frames
  <1>7. Quiet' /\ Looping'
    <2>1. Cascaded' = Cascaded /\ Resolved' = Resolved
      BY <1>1 DEF Cascaded, Resolved, foundVars
    <2>2. QED BY <1>1, <2>1 DEF Basic, Quiet, Looping, searchVars
  <1>8. Linked'
    BY <1>1, EmptyLinked DEF searchVars
  <1>9. QED BY <1>6, <1>7, <1>8 DEF Basic

LEMMA RaisesBasic ==
    ASSUME Basic, QueryRaises PROVE Basic'
  <1>1. /\ pc' = "aborted" /\ Cascaded = {} /\ report = None /\ stack = <<>>
        /\ UNCHANGED <<inputVars, work, foundVars, chain, searchVars, endVars>>
    BY AskedFacts DEF QueryRaises
  <1>2. Cascaded' = Cascaded /\ Resolved' = Resolved
    BY <1>1 DEF Cascaded, Resolved, foundVars
  <1>3. TypeOK'
    BY <1>1, SearchTypes DEF Basic, TypeOK, searchVars, endVars, Frames
  <1>4. Quiet' /\ Looping'
    BY <1>1, <1>2 DEF Basic, Quiet, Looping, searchVars, endVars
  <1>5. QED BY <1>1, <1>3, <1>4, EmptyLinked DEF Basic, searchVars

LEMMA StutterBasic ==
    ASSUME Basic, UNCHANGED vars PROVE Basic'
  <1>1. Cascaded' = Cascaded /\ Resolved' = Resolved /\ Missing' = Missing
    BY DEF vars, foundVars, Cascaded, Resolved, Missing
  <1>2. TypeOK'
    BY <1>1 DEF Basic, TypeOK, vars, inputVars, foundVars, searchVars, endVars
  <1>3. Quiet' /\ Looping'
    BY <1>1 DEF Basic, Quiet, Looping, vars, foundVars, searchVars, endVars
  <1>4. Linked'
    BY SameLinked DEF Basic, vars, searchVars
  <1>5. QED BY <1>2, <1>3, <1>4 DEF Basic

LEMMA NextBasic ==
    ASSUME Basic, [Next]_vars PROVE Basic'
  <1>1. CASE Next
    <2>1. CASE SeedPhase BY <2>1, SeedBasic
    <2>2. CASE SkipKnown BY <2>2, SkipBasic
    <2>3. CASE QueryRaises BY <2>3, RaisesBasic
    <2>4. CASE NoCompatibleVersion BY <2>4, NoVersionBasic
    <2>5. CASE \E deps \in DepLists : RecordResolved(deps) BY <2>5, RecordBasic
    <2>6. CASE ClosureEnds BY <2>6, ClosureEndsBasic
    <2>7. CASE CycleRoot BY <2>7, CycleRootBasic
    <2>8. CASE CycleSearch \/ CascadeSearch BY <2>8, SearchBasic
    <2>9. CASE CycleFound BY <2>9, CycleFoundBasic
    <2>10. CASE NoCycle BY <2>10, NoCycleBasic
    <2>11. CASE CascadeRound BY <2>11, RoundBasic
    <2>12. CASE CascadeRoot BY <2>12, CascadeRootBasic
    <2>13. CASE CascadeFound BY <2>13, DropBasic
    <2>14. CASE BuildReport BY <2>14, ReportBasic
    <2>15. QED
      BY <1>1, <2>1, <2>2, <2>3, <2>4, <2>5, <2>6, <2>7, <2>8, <2>9, <2>10, <2>11, <2>12,
         <2>13, <2>14 DEF Next
  <1>2. CASE UNCHANGED vars
    BY <1>2, StutterBasic
  <1>3. QED BY <1>1, <1>2

\* Whatever the providers answer, the search stays well formed: no mod is resolved
\* twice or both resolved and lost, and its frames are mods that resolved, each a
\* dependency of its caller (resolver.py:204-365).
THEOREM TypeCorrect == Spec => []TypeOK
  <1>1. Init => Basic
    BY InitBasic
  <1>2. Basic /\ [Next]_vars => Basic'
    BY NextBasic
  <1>3. Basic => TypeOK
    BY DEF Basic
  <1>4. QED BY <1>1, <1>2, <1>3, PTL DEF Spec

----------------------------------------------------------------------------
(* Chains. *)

LEMMA ChainGrows ==
    ASSUME Basic, ChainsExplain, CascadeFound PROVE ChainsExplain'
  <1> DEFINE m == Head(Path)
             d == Head(Top.deps)
             c == ChainFrom(d)
             b == Base(d)
             n == Len(stack)
  <1>1. /\ m \in Mods /\ m = Path[1] /\ m \notin Missing /\ d \in Missing /\ d \in Mods
        /\ chain' = [chain EXCEPT ![m] = c] /\ Cascaded' = Cascaded \cup {m}
    BY Dropped
  <1>2. stack # <<>> /\ Top.deps # <<>> /\ failed' = failed /\ requires' = requires
    BY DEF CascadeFound, Found
  <1>3. /\ b \in Seq(Mods) /\ Len(b) \in Nat \ {0} /\ c \in Seq(Mods)
        /\ Len(c) = Len(b) + n
        /\ \A i \in 1..Len(b) : c[i] = b[i]
        /\ \A i \in 1..n : c[Len(b) + i] = Path[(n - i) + 1]
    BY <1>1, <1>2, ChainFacts DEF Basic
  <1>4. n \in Nat \ {0} /\ \A i \in 1..n : Path[i] = stack[i].node
    BY <1>2, StackFacts DEF Basic
  <1>5. \A i \in 1..(n - 1) : Path[i + 1] \in Needs(Path[i])
    <2>1. \A i \in 1..(n - 1) : i \in 1..n /\ i + 1 \in 1..n
      BY <1>4
    <2>2. QED BY <1>4, <2>1 DEF Basic, Linked
  <1>6. d \in Needs(Path[n])
    <2>1. Top = stack[n] /\ d \in ToSet(Top.deps)
      BY <1>2, AdvanceMoves DEF Basic
    <2>2. ToSet(stack[n].deps) \subseteq Needs(stack[n].node)
      BY <1>4 DEF Basic, Linked
    <2>3. QED BY <1>4, <2>1, <2>2
  <1>7. /\ b[1] \in failed /\ b[Len(b)] = d
        /\ \A i \in 1..(Len(b) - 1) : b[i] \in Needs(b[i + 1])
    <2>1. CASE d \in failed
      <3>1. b = <<d>>
        BY <2>1 DEF Base
      <3>2. b[1] = d /\ Len(b) = 1
        BY <3>1
      <3>3. QED BY <2>1, <3>2
    <2>2. CASE d \notin failed
      <3>1. d \in Cascaded /\ b = chain[d]
        BY <1>1, <2>2 DEF Base, Missing
      <3>2. /\ Head(b) \in failed /\ Last(b) = d
            /\ \A i \in 1..(Len(b) - 1) : b[i] \in Needs(b[i + 1])
        BY <3>1 DEF ChainsExplain
      <3>3. Head(b) = b[1] /\ Last(b) = b[Len(b)]
        BY <1>3 DEF Last
      <3>4. QED BY <3>2, <3>3
    <2>3. QED BY <2>1, <2>2
  <1> HIDE DEF m, d, c, b, n
  <1>8. c[1] \in failed /\ c[Len(c)] = m
    <2>1. 1 \in 1..Len(b) /\ n \in 1..n /\ (n - n) + 1 = 1
      BY <1>3, <1>4
    <2>2. c[1] = b[1]
      BY <1>3, <2>1
    <2>3. c[Len(b) + n] = Path[(n - n) + 1]
      BY <1>3, <2>1
    <2>4. QED BY <1>1, <1>3, <1>7, <2>1, <2>2, <2>3
  <1>9. ASSUME NEW i \in 1..(Len(c) - 1)
        PROVE  c[i] \in Needs(c[i + 1])
    <2>1. Len(c) = Len(b) + n /\ Len(b) \in Nat \ {0} /\ n \in Nat \ {0} /\ i \in Nat
      BY <1>3, <1>4
    <2>2. CASE i < Len(b)
      <3>1. i \in 1..(Len(b) - 1) /\ i \in 1..Len(b) /\ i + 1 \in 1..Len(b)
        BY <2>1, <2>2
      <3>2. QED BY <1>3, <1>7, <3>1
    <2>3. CASE i = Len(b)
      <3>1. i \in 1..Len(b) /\ 1 \in 1..n /\ (n - 1) + 1 = n
        BY <2>1, <2>3
      <3>2. c[i] = d
        BY <1>3, <1>7, <2>3, <3>1
      <3>3. c[Len(b) + 1] = Path[(n - 1) + 1]
        BY <1>3, <3>1
      <3>4. QED BY <1>6, <2>3, <3>1, <3>2, <3>3
    <2>4. CASE i > Len(b)
      <3> DEFINE j == i - Len(b)
      <3>1. /\ j \in 1..n /\ j + 1 \in 1..n /\ Len(b) + j = i /\ Len(b) + (j + 1) = i + 1
            /\ n - j \in 1..(n - 1) /\ (n - (j + 1)) + 1 = n - j
        BY <2>1, <2>4
      <3> HIDE DEF j
      <3>2. c[Len(b) + j] = Path[(n - j) + 1]
        BY <1>3, <3>1
      <3>3. c[Len(b) + (j + 1)] = Path[(n - (j + 1)) + 1]
        BY <1>3, <3>1
      <3>4. Path[(n - j) + 1] \in Needs(Path[n - j])
        BY <1>5, <3>1
      <3>5. QED BY <3>1, <3>2, <3>3, <3>4
    <2>5. QED BY <2>1, <2>2, <2>3, <2>4
  <1>10. ASSUME NEW q \in Cascaded'
         PROVE  /\ Head(chain'[q]) \in failed' /\ Last(chain'[q]) = q
                /\ \A i \in 1..(Len(chain'[q]) - 1) :
                     chain'[q][i] \in ToSet(requires'[chain'[q][i + 1]])
    <2>1. CASE q = m
      <3>1. chain'[q] = c
        BY <1>1, <2>1 DEF Basic, TypeOK
      <3>2. Head(c) = c[1] /\ Last(c) = c[Len(c)]
        BY <1>3, <1>4 DEF Last
      <3>3. QED BY <1>2, <1>8, <1>9, <2>1, <3>1, <3>2 DEF Needs
    <2>2. CASE q # m
      <3>1. q \in Cascaded /\ q \in Mods /\ chain'[q] = chain[q]
        BY <1>1, <2>2 DEF Basic, TypeOK, Cascaded
      <3>2. QED BY <1>2, <3>1 DEF ChainsExplain, Needs
    <2>3. QED BY <2>1, <2>2
  <1>11. QED BY <1>10 DEF ChainsExplain, Needs

LEMMA ChainsNext ==
    ASSUME Basic, ChainsExplain, [Next]_vars PROVE ChainsExplain'
  <1>1. CASE UNCHANGED <<chain, failed, requires>>
    <2>1. Cascaded' = Cascaded
      BY <1>1 DEF Cascaded
    <2>2. QED BY <1>1, <2>1 DEF ChainsExplain, Needs
  <1>2. CASE Cascaded = {} /\ chain' = chain
    <2>1. Cascaded' = {}
      BY <1>2 DEF Cascaded
    <2>2. QED BY <2>1 DEF ChainsExplain
  <1>3. CASE CascadeFound
    BY <1>3, ChainGrows
  <1>4. CASE SeedPhase \/ NoCompatibleVersion \/ \E deps \in DepLists : RecordResolved(deps)
    <2>1. pc \in {"seed", "closure"} /\ chain' = chain
      BY <1>4 DEF SeedPhase, NoCompatibleVersion, RecordResolved, Asked
    <2>2. QED BY <1>2, <2>1 DEF Basic, Quiet
  <1>5. CASE SkipKnown \/ QueryRaises \/ ClosureEnds \/ CycleRoot \/ CycleSearch \/ CycleFound
    BY <1>1, <1>5 DEF SkipKnown, QueryRaises, ClosureEnds, CycleRoot, CycleSearch, Search,
         CycleFound, foundVars
  <1>6. CASE NoCycle \/ CascadeRound \/ CascadeRoot \/ CascadeSearch \/ BuildReport
    BY <1>1, <1>6 DEF NoCycle, CascadeRound, CascadeRoot, CascadeSearch, Search, BuildReport,
         foundVars
  <1>7. CASE UNCHANGED vars
    BY <1>1, <1>7 DEF vars, foundVars
  <1>8. QED BY <1>3, <1>4, <1>5, <1>6, <1>7 DEF Next

\* However deep the search was and whatever it had dropped before, the chain given for a
\* dropped mod leads from a mod no provider has, by requirements, to it
\* (resolver.py:346-365).
THEOREM ChainsCorrect == Spec => []ChainsExplain
  <1>1. Init => Basic /\ ChainsExplain
    <2>1. Init => Cascaded = {}
      BY DEF Init, Cascaded
    <2>2. QED BY <2>1, InitBasic DEF ChainsExplain
  <1>2. Basic /\ ChainsExplain /\ [Next]_vars => Basic' /\ ChainsExplain'
    BY NextBasic, ChainsNext
  <1>3. QED BY <1>1, <1>2, PTL DEF Spec

----------------------------------------------------------------------------
(* The closure: the queue and what it will still bring. *)

Keys(q) == {q[i].key : i \in 1..Len(q)}
SeedKeys(q) == {q[i].key : i \in {j \in 1..Len(q) : q[j].seeded}}
SeedFirst(q) == \A i, j \in 1..Len(q) : i < j /\ q[j].seeded => q[i].seeded

\* Everything that the release needs has resolved, is missing, or is queued; the mods of
\* the seed are taken before any dependency.
Queued ==
    /\ pc = "seed" => \A m \in Mods : requires[m] = <<>>
    /\ pc # "seed" => Seeds \subseteq Resolved \cup Missing \cup SeedKeys(work)
    /\ \A m \in Resolved : Needs(m) \subseteq Resolved \cup Missing \cup Keys(work)
    /\ SeedFirst(work)
    /\ extra \cap Seeds = {}
    /\ pc \in {"cycle", "cascade", "done", "cyclic"} => work = <<>>

LEMMA EmptyQueue == Keys(<<>>) = {} /\ SeedKeys(<<>>) = {} /\ SeedFirst(<<>>)
  BY DEF Keys, SeedKeys, SeedFirst

LEMMA TailKeys ==
    ASSUME NEW q \in Seq(Items), q # <<>>
    PROVE  /\ Keys(q) \subseteq {Head(q).key} \cup Keys(Tail(q))
           /\ SeedKeys(q) \subseteq {Head(q).key} \cup SeedKeys(Tail(q))
           /\ SeedFirst(q) => SeedFirst(Tail(q))
           /\ SeedFirst(q) /\ ~Head(q).seeded => SeedKeys(q) = {}
  <1> DEFINE n == Len(q)
             t == Tail(q)
  <1>1. /\ n \in Nat \ {0} /\ Len(t) = n - 1 /\ Head(q) = q[1]
        /\ \A i \in 1..(n - 1) : t[i] = q[i + 1]
    BY HeadTailProperties, LenProperties, EmptySeq
  <1> HIDE DEF n, t
  <1>2. \A i \in 1..n : i = 1 \/ (i - 1 \in 1..(n - 1) /\ t[i - 1] = q[i])
    BY <1>1
  <1>3. Keys(q) \subseteq {Head(q).key} \cup Keys(t)
    BY <1>1, <1>2 DEF Keys, n
  <1>4. SeedKeys(q) \subseteq {Head(q).key} \cup SeedKeys(t)
    BY <1>1, <1>2 DEF SeedKeys, n
  <1>5. SeedFirst(q) => SeedFirst(t)
    <2>1. SUFFICES ASSUME SeedFirst(q), NEW i \in 1..(n - 1), NEW j \in 1..(n - 1),
                          i < j, t[j].seeded
                   PROVE  t[i].seeded
      BY <1>1 DEF SeedFirst
    <2>2. i + 1 \in 1..n /\ j + 1 \in 1..n /\ i + 1 < j + 1 /\ q[j + 1].seeded
      BY <1>1, <2>1
    <2>3. q[i + 1].seeded
      BY <2>1, <2>2 DEF SeedFirst, n
    <2>4. QED BY <1>1, <2>3
  <1>6. SeedFirst(q) /\ ~Head(q).seeded => SeedKeys(q) = {}
    <2>1. SUFFICES ASSUME SeedFirst(q), ~q[1].seeded, NEW j \in 1..n
                   PROVE  ~q[j].seeded
      BY <1>1 DEF SeedKeys, n
    <2>2. j = 1 \/ (1 < j /\ 1 \in 1..n)
      BY <1>1
    <2>3. QED BY <2>1, <2>2 DEF SeedFirst, n
  <1>7. QED BY <1>3, <1>4, <1>5, <1>6 DEF t

LEMMA MoreKeys ==
    ASSUME NEW q \in Seq(Items), NEW deps \in Seq(Projects)
    PROVE  LET r == q \o [i \in DOMAIN deps |-> Item(deps[i], FALSE)]
           IN  /\ Keys(q) \cup ToSet(deps) \subseteq Keys(r)
               /\ SeedKeys(q) \subseteq SeedKeys(r)
               /\ SeedFirst(q) => SeedFirst(r)
  <1> DEFINE r == q \o [i \in DOMAIN deps |-> Item(deps[i], FALSE)]
  <1>1. /\ Len(r) = Len(q) + Len(deps) /\ Len(q) \in Nat /\ Len(deps) \in Nat
        /\ \A i \in 1..Len(q) : r[i] = q[i]
        /\ \A i \in 1..Len(deps) : r[Len(q) + i] = [key |-> deps[i], seeded |-> FALSE]
    BY QueueFacts
  <1> HIDE DEF r
  <1>2. \A i \in 1..Len(q) : i \in 1..Len(r)
    BY <1>1
  <1>3. ASSUME NEW i \in 1..Len(deps)
        PROVE  Len(q) + i \in 1..Len(r) /\ r[Len(q) + i].key = deps[i]
    <2>1. Len(q) + i \in 1..Len(r)
      BY <1>1
    <2>2. r[Len(q) + i] = [key |-> deps[i], seeded |-> FALSE]
      BY <1>1
    <2>3. QED BY <2>1, <2>2
  <1>4. Keys(q) \subseteq Keys(r) /\ SeedKeys(q) \subseteq SeedKeys(r)
    BY <1>1, <1>2 DEF Keys, SeedKeys
  <1>5. DOMAIN deps = 1..Len(deps)
    BY LenProperties
  <1>6. ToSet(deps) \subseteq Keys(r)
    BY <1>3, <1>5 DEF Keys, ToSet
  <1>7. SeedFirst(q) => SeedFirst(r)
    <2>1. SUFFICES ASSUME SeedFirst(q), NEW i \in 1..Len(r), NEW j \in 1..Len(r),
                          i < j, r[j].seeded
                   PROVE  r[i].seeded
      BY DEF SeedFirst
    <2>2. CASE j <= Len(q)
      <3>1. i \in 1..Len(q) /\ j \in 1..Len(q)
        BY <1>1, <2>1, <2>2
      <3>2. QED BY <1>1, <2>1, <3>1 DEF SeedFirst
    <2>3. CASE ~(j <= Len(q))
      <3>1. j - Len(q) \in 1..Len(deps) /\ Len(q) + (j - Len(q)) = j
        BY <1>1, <2>1, <2>3
      <3>2. r[j] = [key |-> deps[j - Len(q)], seeded |-> FALSE]
        BY <1>1, <3>1
      <3>3. QED BY <2>1, <3>2
    <2>4. QED BY <2>2, <2>3
  <1>8. QED BY <1>4, <1>6, <1>7 DEF r

LEMMA SeedQueued ==
    ASSUME Basic, Queued, SeedPhase PROVE Queued'
  <1>1. /\ resolved' = inHouse /\ failed' = unknown /\ pc = "seed" /\ pc' = "closure"
        /\ work' = [i \in DOMAIN seeds |-> Item(seeds[i], TRUE)]
        /\ UNCHANGED <<inputVars, requires, extra, chain, searchVars, endVars>>
        /\ Cascaded = {} /\ extra = {} /\ inHouse \in Seq(Mods)
    <2>1. inHouse \in BuiltLists
      BY DEF Basic, TypeOK
    <2>2. inHouse \in Seq(Files)
      BY <2>1, ResolverAssumption
    <2>3. inHouse \in Seq(Mods)
      BY <2>2, SeqMonotonic DEF Mods
    <2>4. QED BY <2>3 DEF Basic, Quiet, SeedPhase
  <1>2. /\ Len(seeds) \in Nat /\ DOMAIN seeds = 1..Len(seeds)
        /\ \A i \in 1..Len(seeds) : seeds[i] \in Projects
    <2>1. seeds \in SeedLists
      BY DEF Basic, TypeOK
    <2>2. seeds \in Seq(Projects)
      BY <2>1, ResolverAssumption
    <2>3. QED BY <2>2, LenProperties
  <1>3. /\ work' = [i \in 1..Len(seeds) |-> [key |-> seeds[i], seeded |-> TRUE]]
        /\ Len(work') = Len(seeds)
        /\ \A i \in 1..Len(seeds) : work'[i].key = seeds[i] /\ work'[i].seeded
    BY <1>1, <1>2 DEF Item
  <1>4. SeedKeys(work') = ToSet(seeds) /\ SeedFirst(work')
    BY <1>2, <1>3 DEF SeedKeys, ToSet, SeedFirst
  <1>5. /\ Resolved' = ToSet(inHouse) /\ Missing' = unknown /\ Seeds' = Seeds
        /\ Seeds = ToSet(seeds) \cup ToSet(inHouse) \cup unknown
    BY <1>1 DEF Resolved, Missing, Cascaded, Seeds, inputVars
  <1>6. \A m \in Resolved' : Needs(m)' = {}
    <2>1. ToSet(inHouse) \subseteq Mods
      BY <1>1, LenProperties DEF ToSet
    <2>2. \A m \in Mods : requires'[m] = <<>>
      BY <1>1 DEF Queued
    <2>3. QED BY <1>5, <2>1, <2>2, InjectiveEmpty DEF Needs
  <1>7. QED BY <1>1, <1>4, <1>5, <1>6 DEF Queued

LEMMA TakeQueued ==
    ASSUME Basic, Queued, SkipKnown \/ NoCompatibleVersion PROVE Queued'
  <1> DEFINE m == Head(work).key
  <1>1. /\ pc = "closure" /\ pc' = pc /\ work' = Tail(work) /\ work # <<>>
        /\ UNCHANGED <<inputVars, resolved, requires, extra, chain>>
        /\ failed \subseteq failed'
        /\ m \in Resolved \cup Missing \/ m \in failed'
    BY DEF SkipKnown, NoCompatibleVersion, Asked, Known, foundVars
  <1>2. /\ Keys(work) \subseteq {m} \cup Keys(work')
        /\ SeedKeys(work) \subseteq {m} \cup SeedKeys(work')
        /\ SeedFirst(work')
    BY <1>1, TailKeys DEF Basic, TypeOK, Items, Queued
  <1> HIDE DEF m
  <1>3. /\ Resolved' = Resolved /\ Seeds' = Seeds /\ Missing \subseteq Missing'
        /\ m \in Resolved \cup Missing'
    BY <1>1 DEF Resolved, Missing, Cascaded, Seeds, inputVars
  <1>4. \A k \in Resolved : Needs(k) \subseteq Resolved \cup Missing' \cup Keys(work')
    BY <1>2, <1>3 DEF Queued
  <1>5. \A k \in Resolved' : Needs(k)' \subseteq (Resolved \cup Missing \cup Keys(work))'
    BY <1>1, <1>3, <1>4 DEF Needs
  <1>6. Seeds' \subseteq (Resolved \cup Missing \cup SeedKeys(work))'
    BY <1>1, <1>2, <1>3 DEF Queued
  <1>7. QED BY <1>1, <1>2, <1>3, <1>5, <1>6 DEF Queued

LEMMA RecordQueued ==
    ASSUME Basic, Queued, NEW deps \in DepLists, RecordResolved(deps) PROVE Queued'
  <1> DEFINE m == Head(work).key
             t == Tail(work)
  <1>1. /\ t \in Seq(Items) /\ m \in Projects /\ m \notin Resolved \cup Missing
        /\ work \in Seq(Items) /\ work # <<>> /\ pc = "closure"
    BY AskedFacts DEF RecordResolved
  <1>2. /\ resolved' = Append(resolved, m)
        /\ requires' = [requires EXCEPT ![m] = deps]
        /\ extra' = IF Head(work).seeded THEN extra ELSE extra \cup {m}
        /\ work' = t \o [i \in DOMAIN deps |-> Item(deps[i], FALSE)]
        /\ UNCHANGED <<pc, inputVars, failed, chain, searchVars, endVars>>
    BY DEF RecordResolved
  <1>3. deps \in Seq(Projects) /\ m \in Mods
    BY <1>1, ResolverAssumption DEF Mods
  <1>4. /\ Keys(work) \subseteq {m} \cup Keys(t)
        /\ SeedKeys(work) \subseteq {m} \cup SeedKeys(t)
        /\ SeedFirst(t)
        /\ ~Head(work).seeded => SeedKeys(work) = {}
    BY <1>1, TailKeys DEF Queued
  <1> HIDE DEF m, t
  <1>5. /\ Keys(t) \cup ToSet(deps) \subseteq Keys(work')
        /\ SeedKeys(t) \subseteq SeedKeys(work')
        /\ SeedFirst(work')
    <2> DEFINE r == t \o [i \in DOMAIN deps |-> Item(deps[i], FALSE)]
    <2>1. /\ Keys(t) \cup ToSet(deps) \subseteq Keys(r) /\ SeedKeys(t) \subseteq SeedKeys(r)
          /\ SeedFirst(t) => SeedFirst(r)
      BY <1>1, <1>3, MoreKeys
    <2>2. work' = r
      BY <1>2
    <2> HIDE DEF r
    <2>3. QED BY <1>4, <2>1, <2>2
  <1>6. Resolved' = Resolved \cup {m} /\ Missing' = Missing /\ Seeds' = Seeds
    BY <1>2, <1>3, AppendSet
       DEF Basic, TypeOK, Resolved, Missing, Cascaded, Seeds, inputVars
  <1>7. extra' \cap Seeds = {}
    <2>1. CASE Head(work).seeded
      BY <1>2, <2>1 DEF Queued
    <2>2. CASE ~Head(work).seeded
      <3>1. Seeds \subseteq Resolved \cup Missing \cup SeedKeys(work) /\ SeedFirst(work)
        BY <1>1 DEF Queued
      <3>2. m \notin Seeds
        BY <1>1, <1>4, <2>2, <3>1
      <3>3. QED BY <1>2, <2>2, <3>2 DEF Queued
    <2>3. QED BY <2>1, <2>2
  <1>8. ASSUME NEW k \in Resolved'
        PROVE  ToSet(requires'[k]) \subseteq Resolved' \cup Missing' \cup Keys(work')
    <2>1. CASE k = m
      <3>1. requires'[k] = deps
        BY <1>2, <1>3, <2>1 DEF Basic, TypeOK
      <3>2. QED BY <1>5, <3>1
    <2>2. CASE k # m
      <3>1. k \in Resolved /\ requires'[k] = requires[k]
        BY <1>2, <1>6, <2>2
      <3>2. Needs(k) \subseteq Resolved \cup Missing \cup Keys(work)
        BY <3>1 DEF Queued
      <3>3. QED BY <1>4, <1>5, <1>6, <3>1, <3>2 DEF Needs
    <2>3. QED BY <2>1, <2>2
  <1>9. Seeds' \subseteq (Resolved \cup Missing \cup SeedKeys(work))'
    BY <1>1, <1>4, <1>5, <1>6 DEF Queued
  <1>10. \A k \in Resolved' : Needs(k)' \subseteq (Resolved \cup Missing \cup Keys(work))'
    BY <1>8 DEF Needs
  <1>11. (extra \cap Seeds)' = {} /\ pc' = "closure" /\ SeedFirst(work)'
    BY <1>1, <1>2, <1>5, <1>6, <1>7
  <1>12. QED BY <1>9, <1>10, <1>11 DEF Queued

LEMMA DropQueued ==
    ASSUME Basic, Queued, CascadeFound PROVE Queued'
  <1> DEFINE m == Head(Path)
  <1>1. /\ m \in Resolved /\ Resolved' = Resolved \ {m} /\ Missing' = Missing \cup {m}
    BY Dropped
  <1>2. /\ pc = "cascade" /\ pc' = pc
        /\ UNCHANGED <<inputVars, work, requires, extra>>
    BY DEF CascadeFound, Found
  <1> HIDE DEF m
  <1>3. Seeds' = Seeds
    BY <1>2 DEF Seeds, inputVars
  <1>4. \A k \in Resolved' : Needs(k)' \subseteq (Resolved \cup Missing \cup Keys(work))'
    BY <1>1, <1>2 DEF Queued, Needs
  <1>5. QED BY <1>1, <1>2, <1>3, <1>4 DEF Queued

LEMMA SameQueued ==
    ASSUME Queued, UNCHANGED <<inputVars, work, foundVars, chain>>,
           pc # "seed", pc' # "seed",
           pc' \in {"cycle", "cascade", "done", "cyclic"} => work = <<>>
    PROVE  Queued'
  <1>1. /\ Resolved' = Resolved /\ Missing' = Missing /\ Seeds' = Seeds
        /\ work' = work /\ requires' = requires /\ extra' = extra
    BY DEF inputVars, foundVars, Resolved, Missing, Cascaded, Seeds
  <1>2. \A k \in Resolved' : Needs(k)' \subseteq (Resolved \cup Missing \cup Keys(work))'
    BY <1>1 DEF Queued, Needs
  <1>3. QED BY <1>1, <1>2 DEF Queued

LEMMA NextQueued ==
    ASSUME Basic, Queued, [Next]_vars PROVE Queued'
  <1>1. CASE SeedPhase BY <1>1, SeedQueued
  <1>2. CASE SkipKnown \/ NoCompatibleVersion BY <1>2, TakeQueued
  <1>3. CASE \E deps \in DepLists : RecordResolved(deps) BY <1>3, RecordQueued
  <1>4. CASE CascadeFound BY <1>4, DropQueued
  <1>5. CASE QueryRaises \/ ClosureEnds
    BY <1>5, SameQueued DEF QueryRaises, ClosureEnds, Asked
  <1>6. CASE CycleRoot \/ CycleSearch \/ CycleFound \/ NoCycle
    BY <1>6, SameQueued
       DEF Queued, CycleRoot, CycleSearch, Search, CycleFound, Found, NoCycle
  <1>7. CASE CascadeRound \/ CascadeRoot \/ CascadeSearch \/ BuildReport
    BY <1>7, SameQueued
       DEF Queued, CascadeRound, CascadeRoot, CascadeSearch, Search, BuildReport
  <1>8. CASE UNCHANGED vars
    <2>1. /\ Resolved' = Resolved /\ Missing' = Missing /\ Seeds' = Seeds /\ pc' = pc
          /\ work' = work /\ requires' = requires /\ extra' = extra
      BY <1>8 DEF vars, inputVars, foundVars, Resolved, Missing, Cascaded, Seeds
    <2>2. \A k \in Resolved' : Needs(k)' \subseteq (Resolved \cup Missing \cup Keys(work))'
      BY <2>1 DEF Queued, Needs
    <2>3. QED BY <2>1, <2>2 DEF Queued
  <1>9. QED
    BY <1>1, <1>2, <1>3, <1>4, <1>5, <1>6, <1>7, <1>8 DEF Next

----------------------------------------------------------------------------
(* The last round of the cascade. *)

Lacks(m) == Needs(m) \cap Missing

\* A round that has dropped nothing so far has found that what it visited lacks nothing;
\* of the mod whose search is under way, what may be missing is yet to be looked at.
Settled ==
    pc = "cascade" /\ ~changed =>
      /\ \A m \in Resolved \ ToSet(roots) :
           Lacks(m) = {} \/ (stack # <<>> /\ m = stack[1].node)
      /\ stack # <<>> => Lacks(stack[1].node) \subseteq ToSet(stack[1].deps)

LEMMA SearchSettled ==
    ASSUME Basic, Settled, CascadeSearch PROVE Settled'
  <1>1. /\ pc = "cascade" /\ pc' = pc /\ stack # <<>> /\ changed' = changed
        /\ roots' = roots /\ UNCHANGED <<foundVars, chain>>
    BY DEF CascadeSearch, Search
  <1>2. Resolved' = Resolved /\ \A m : Lacks(m)' = Lacks(m)
    BY <1>1 DEF Resolved, Lacks, Needs, Missing, Cascaded, foundVars
  <1>3. /\ Len(stack) \in Nat \ {0} /\ Top = stack[Len(stack)]
        /\ 1 \in 1..Len(stack)
    BY <1>1, StackFacts DEF Basic, Top, Last
  <1>4. SUFFICES ASSUME ~changed PROVE Settled'
    BY <1>1 DEF Settled
  <1>5. CASE Leave
    <2>1. /\ Len(stack') = Len(stack) - 1 /\ stack' \in Seq(Frames)
          /\ \A i \in 1..(Len(stack) - 1) : stack'[i] = stack[i]
          /\ Top.deps = <<>>
      BY <1>1, <1>5, LeaveMoves DEF Basic, Leave
    <2>2. CASE Len(stack) = 1
      <3>1. stack' = <<>>
        BY <2>1, <2>2, EmptySeq
      <3>2. Lacks(stack[1].node) = {}
        BY <1>1, <1>3, <1>4, <2>1, <2>2, InjectiveEmpty DEF Settled
      <3>3. QED BY <1>1, <1>2, <1>4, <3>1, <3>2 DEF Settled
    <2>3. CASE Len(stack) # 1
      <3>1. 1 \in 1..(Len(stack) - 1) /\ Len(stack') # 0
        BY <1>3, <2>1, <2>3
      <3>2. stack'[1] = stack[1] /\ stack' # <<>>
        BY <2>1, <3>1, EmptySeq
      <3>3. QED BY <1>1, <1>2, <1>4, <3>2 DEF Settled
    <2>4. QED BY <2>2, <2>3
  <1>6. CASE Top.deps # <<>> /\ (Pass(Head(Top.deps)) \/ Enter(Head(Top.deps)))
    <2>1. Head(Top.deps) \notin Missing
      BY <1>3, <1>6, InjectiveEmpty DEF CascadeSearch, Search, Gone, Leave
    <2>2. /\ \A i \in 1..(Len(stack) - 1) : stack'[i] = stack[i]
          /\ stack'[Len(stack)] = [node |-> Top.node, deps |-> Tail(Top.deps)]
          /\ ToSet(Top.deps) = {Head(Top.deps)} \cup ToSet(Tail(Top.deps))
          /\ stack' # <<>>
      <3>1. CASE Pass(Head(Top.deps))
        <4>1. stack' = Advanced
          BY <3>1 DEF Pass
        <4>2. Advanced # <<>>
          BY <1>1, <1>3, <1>6, AdvanceMoves, EmptySeq DEF Basic
        <4>3. QED BY <1>1, <1>6, <4>1, <4>2, AdvanceMoves DEF Basic
      <3>2. CASE Enter(Head(Top.deps))
        <4>1. stack' \in Seq(Frames) /\ Len(stack') = Len(stack) + 1
          BY <1>1, <1>6, <3>2, EnterMoves DEF Basic
        <4>2. stack' # <<>>
          BY <1>3, <4>1, EmptySeq
        <4>3. QED BY <1>1, <1>6, <3>2, <4>2, EnterMoves, AdvanceMoves DEF Basic
      <3>3. QED BY <1>6, <3>1, <3>2
    <2>3. /\ stack'[1].node = stack[1].node
          /\ ToSet(stack[1].deps) \ Missing \subseteq ToSet(stack[1].deps)
          /\ ToSet(stack[1].deps) \cap Missing \subseteq ToSet(stack'[1].deps)
      <3>1. CASE Len(stack) = 1
        <4>1. stack'[1] = [node |-> Top.node, deps |-> Tail(Top.deps)] /\ Top = stack[1]
          BY <1>3, <2>2, <3>1
        <4>2. stack'[1].node = Top.node /\ stack'[1].deps = Tail(Top.deps)
          BY <4>1
        <4>3. QED BY <2>1, <2>2, <4>1, <4>2
      <3>2. CASE Len(stack) # 1
        <4>1. 1 \in 1..(Len(stack) - 1)
          BY <1>3, <3>2
        <4>2. QED BY <2>2, <4>1
      <3>3. QED BY <3>1, <3>2
    <2>4. Lacks(stack'[1].node) \subseteq ToSet(stack'[1].deps)
      <3>1. Lacks(stack[1].node) \subseteq ToSet(stack[1].deps) \cap Missing
        BY <1>1, <1>4 DEF Settled, Lacks
      <3>2. QED BY <2>3, <3>1
    <2>5. \A m \in Resolved \ ToSet(roots) : Lacks(m) = {} \/ m = stack'[1].node
      BY <1>1, <1>4, <2>3 DEF Settled
    <2>6. ASSUME NEW m \in Resolved' \ ToSet(roots')
          PROVE  (Needs(m) \cap Missing)' = {} \/ m = stack'[1].node
      BY <1>1, <1>2, <2>5 DEF Lacks
    <2>7. QED BY <1>1, <1>2, <2>2, <2>4, <2>6 DEF Settled, Lacks
  <1>7. QED BY <1>5, <1>6 DEF CascadeSearch, Search

LEMMA NextSettled ==
    ASSUME Basic, Settled, [Next]_vars PROVE Settled'
  <1>1. CASE CascadeSearch
    BY <1>1, SearchSettled
  <1>2. CASE CascadeRound
    <2>1. /\ roots' = resolved /\ stack' = <<>> /\ Resolved' = ToSet(roots')
      BY <1>2 DEF CascadeRound, foundVars, Resolved
    <2>2. QED BY <2>1 DEF Settled
  <1>3. CASE CascadeRoot
    <2> DEFINE r == Head(roots)
    <2>1. /\ pc = "cascade" /\ pc' = pc /\ stack = <<>> /\ roots # <<>>
          /\ roots' = Tail(roots) /\ stack' = <<Frame(r)>>
          /\ changed' = changed /\ UNCHANGED <<foundVars, chain>>
      BY <1>3 DEF CascadeRoot
    <2>2. ToSet(roots) = {r} \cup ToSet(roots')
      BY <2>1, TailSet DEF Basic, TypeOK
    <2>3. /\ stack'[1] = [node |-> r, deps |-> requires[r]] /\ stack' # <<>>
          /\ stack'[1].node = r /\ stack'[1].deps = requires[r]
      BY <2>1 DEF Frame
    <2>4. /\ Resolved' = Resolved /\ Missing' = Missing /\ requires' = requires
      BY <2>1 DEF Resolved, Missing, Cascaded, foundVars
    <2> HIDE DEF r
    <2>5. ~changed => \A m \in Resolved \ ToSet(roots) : Lacks(m) = {}
      BY <2>1 DEF Settled
    <2>6. ~changed => \A m \in Resolved \ ToSet(roots') : Lacks(m) = {} \/ m = r
      BY <2>2, <2>5
    <2>7. Lacks(r) \subseteq ToSet(requires[r])
      BY DEF Lacks, Needs
    <2>8. QED BY <2>1, <2>3, <2>4, <2>6, <2>7 DEF Settled, Lacks, Needs
  <1>4. CASE CascadeFound \/ NoCycle
    BY <1>4 DEF CascadeFound, NoCycle, Settled
  <1>5. CASE BuildReport \/ SeedPhase \/ SkipKnown \/ QueryRaises \/ NoCompatibleVersion
             \/ (\E deps \in DepLists : RecordResolved(deps)) \/ ClosureEnds
             \/ CycleRoot \/ CycleSearch \/ CycleFound
    <2>1. pc' # "cascade"
      BY <1>5 DEF BuildReport, SeedPhase, SkipKnown, QueryRaises, NoCompatibleVersion,
           RecordResolved, Asked, ClosureEnds, CycleRoot, CycleSearch, Search, CycleFound
    <2>2. QED BY <2>1 DEF Settled
  <1>6. CASE UNCHANGED vars
    <2>1. /\ Resolved' = Resolved /\ Missing' = Missing /\ requires' = requires
          /\ pc' = pc /\ changed' = changed /\ roots' = roots /\ stack' = stack
      BY <1>6 DEF vars, Resolved, Missing, Cascaded, foundVars, searchVars
    <2>2. QED BY <2>1 DEF Settled, Lacks, Needs
  <1>7. QED BY <1>1, <1>2, <1>3, <1>4, <1>5, <1>6 DEF Next

LEMMA ReportMeets ==
    ASSUME Basic, Queued, Settled, BuildReport PROVE RequirementsMet'
  <1>1. /\ pc = "cascade" /\ stack = <<>> /\ roots = <<>> /\ ~changed /\ work = <<>>
        /\ UNCHANGED <<inputVars, work, foundVars, chain, searchVars, cycle>>
    BY DEF BuildReport, Queued
  <1>2. PICK policy \in Policies, skipped \in Skips :
          report' = [status |-> Status(policy), policy |-> policy, skipped |-> skipped,
                     shipped |-> Resolved \ skipped, lost |-> failed,
                     cascade |-> Cascaded]
    BY DEF BuildReport
  <1>3. /\ Seeds' = Seeds /\ extra' = extra /\ requires' = requires
    BY <1>1 DEF Seeds, inputVars, foundVars
  <1>4. Seeds \subseteq Resolved \cup Missing /\ extra \cap Seeds = {}
    BY <1>1, EmptyQueue DEF Queued
  <1>5. \A m \in Resolved : Needs(m) \subseteq Resolved
    <2>1. \A m \in Resolved : Needs(m) \subseteq Resolved \cup Missing
      BY <1>1, EmptyQueue DEF Queued
    <2>2. \A m \in Resolved : Needs(m) \cap Missing = {}
      BY <1>1, InjectiveEmpty DEF Settled, Lacks
    <2>3. QED BY <2>1, <2>2
  <1>6. /\ report'.shipped = Resolved \ skipped /\ report'.skipped = skipped
        /\ report'.lost = failed /\ report'.cascade = Cascaded
        /\ report'.status = Status(policy) /\ report'.policy = policy
    BY <1>2
  <1>7. Status(policy) = "complete" /\ policy # "drop" => Missing = {}
    BY ResolverAssumption DEF Status
  <1>8. \A m \in report'.shipped : Needs(m) \subseteq report'.shipped \cup report'.skipped
    BY <1>5, <1>6
  <1>9. Seeds \subseteq
          report'.shipped \cup report'.skipped \cup report'.lost \cup report'.cascade
    BY <1>4, <1>6 DEF Missing
  <1>10. report'.status = "complete" /\ report'.policy # "drop" =>
           Seeds \subseteq report'.shipped \cup report'.skipped
    BY <1>4, <1>6, <1>7
  <1>11. \A m : Needs(m)' = Needs(m)
    BY <1>3 DEF Needs
  <1>12. QED BY <1>3, <1>4, <1>8, <1>9, <1>10, <1>11 DEF RequirementsMet, Needs

LEMMA NextMeets ==
    ASSUME Basic, Queued, Settled, RequirementsMet, [Next]_vars PROVE RequirementsMet'
  <1>1. CASE BuildReport
    BY <1>1, ReportMeets
  <1>2. CASE UNCHANGED vars
    BY <1>2 DEF vars, inputVars, foundVars, endVars, RequirementsMet, Seeds, Needs
  <1>3. CASE Next /\ ~BuildReport
    <2>1. pc # "done"
      BY <1>3 DEF Next, SeedPhase, SkipKnown, QueryRaises, NoCompatibleVersion,
           RecordResolved, Asked, ClosureEnds, CycleRoot, CycleSearch, Search, CycleFound,
           Found, NoCycle, CascadeRound, CascadeRoot, CascadeSearch, CascadeFound
    <2>2. report' = report
      BY <1>3 DEF Next, SeedPhase, SkipKnown, QueryRaises, NoCompatibleVersion,
           RecordResolved, ClosureEnds, CycleRoot, CycleSearch, Search, CycleFound,
           NoCycle, CascadeRound, CascadeRoot, CascadeSearch, CascadeFound, endVars
    <2>3. QED BY <2>1, <2>2 DEF Basic, Quiet, RequirementsMet
  <1>4. QED BY <1>1, <1>2, <1>3

\* What ships has all that it requires, and no mod of the seed goes missing without a
\* word, for any seed, any answers and any overrides (resolver.py:206-282, 326-412).
THEOREM RequirementsCorrect == Spec => []RequirementsMet
  <1>1. Init => Basic /\ Queued /\ Settled /\ RequirementsMet
    <2>1. Init => Resolved = {} /\ work = <<>> /\ extra = {} /\ report = None
                  /\ pc = "seed" /\ \A m \in Mods : requires[m] = <<>>
      BY InjectiveEmpty DEF Init, Resolved
    <2>2. Init => Queued
      BY <2>1, EmptyQueue DEF Queued
    <2>3. QED BY <2>1, <2>2, InitBasic DEF Settled, RequirementsMet
  <1>2. Basic /\ Queued /\ Settled /\ RequirementsMet /\ [Next]_vars
          => Basic' /\ Queued' /\ Settled' /\ RequirementsMet'
    BY NextBasic, NextQueued, NextSettled, NextMeets
  <1>3. QED BY <1>1, <1>2, PTL DEF Spec

----------------------------------------------------------------------------
(* Cycles. *)

Nodes == {stack[i].node : i \in 1..Len(stack)}
Black == visited \ Nodes

\* A mod that the search has left requires, of the resolved, only such mods, and they
\* form no cycle; what a frame requires is black, yet to be looked at, or the next frame.
Coloured ==
    /\ \A i, j \in 1..Len(stack) : stack[i].node = stack[j].node => i = j
    /\ Nodes \subseteq visited /\ visited \subseteq Resolved
    /\ Resolved \subseteq visited \cup ToSet(roots)
    /\ \A b \in Black : Needs(b) \cap Resolved \subseteq Black
    /\ Acyclic(Black)
    /\ \A i \in 1..Len(stack) :
         Needs(stack[i].node) \cap Resolved \subseteq
           Black \cup ToSet(stack[i].deps)
             \cup {stack[j].node : j \in {k \in 1..Len(stack) : k = i + 1}}

\* While the search for cycles runs; and once it has found none.
Searched ==
    /\ pc = "cycle" => Coloured
    /\ pc \in {"cascade", "done"} => Acyclic(Resolved \cup Cascaded)

LEMMA PathNodes ==
    ASSUME TypeOK PROVE ToSet(Path) = Nodes
  BY StackFacts DEF ToSet, Nodes

\* The mods of a call that returns turn black one by one.
LEMMA BlackGrows ==
    ASSUME NEW B \in SUBSET Resolved, NEW n \in Resolved, n \notin B,
           \A b \in B : Needs(b) \cap Resolved \subseteq B,
           Needs(n) \cap Resolved \subseteq B, Acyclic(B)
    PROVE  Acyclic(B \cup {n})
  <1>1. SUFFICES ASSUME NEW C \in SUBSET (B \cup {n}), C # {}
                 PROVE  \E m \in C : Needs(m) \cap C = {}
    BY DEF Acyclic
  <1>2. CASE C \cap B = {}
    <2>1. C = {n} /\ n \notin Needs(n)
      BY <1>1, <1>2
    <2>2. QED BY <2>1
  <1>3. CASE C \cap B # {}
    <2>1. PICK m \in C \cap B : Needs(m) \cap (C \cap B) = {}
      BY <1>3 DEF Acyclic
    <2>2. Needs(m) \cap C = {}
      BY <1>1, <2>1
    <2>3. QED BY <2>1, <2>2
  <1>4. QED BY <1>2, <1>3

LEMMA AcyclicPart ==
    ASSUME NEW A, NEW B, A \subseteq B, Acyclic(B) PROVE Acyclic(A)
  BY DEF Acyclic

LEMMA AcyclicSame ==
    ASSUME requires' = requires, NEW A, Acyclic(A)
    PROVE  \A C \in SUBSET A : C # {} => \E m \in C : Needs(m)' \cap C = {}
  BY DEF Acyclic, Needs

\* The invariant in the terms of a next state that found nothing new.
LEMMA ColouredNext ==
    ASSUME UNCHANGED <<foundVars, chain>>, NEW B, B = (visited \ Nodes)',
           \A i, j \in 1..Len(stack') : stack'[i].node = stack'[j].node => i = j,
           Nodes' \subseteq visited', visited' \subseteq Resolved,
           Resolved \subseteq visited' \cup ToSet(roots'),
           \A b \in B : Needs(b) \cap Resolved \subseteq B,
           Acyclic(B),
           \A i \in 1..Len(stack') :
             Needs(stack'[i].node) \cap Resolved \subseteq
               B \cup ToSet(stack'[i].deps)
                 \cup {stack'[j].node : j \in {k \in 1..Len(stack') : k = i + 1}}
    PROVE  Coloured'
  <1>1. Resolved' = Resolved /\ requires' = requires /\ Black' = B
    BY DEF foundVars, Resolved, Black
  <1>2. Acyclic(Black)'
    <2>1. \A C \in SUBSET B : C # {} => \E m \in C : Needs(m)' \cap C = {}
      BY <1>1, AcyclicSame
    <2>2. QED BY <1>1, <2>1 DEF Acyclic
  <1>3. \A b \in Black' : Needs(b)' \cap Resolved' \subseteq Black'
    BY <1>1 DEF Needs
  <1>4. ASSUME NEW i \in 1..Len(stack')
        PROVE  ToSet(requires'[stack'[i].node]) \cap Resolved' \subseteq
                 Black' \cup ToSet(stack'[i].deps)
                   \cup {stack'[j].node : j \in {k \in 1..Len(stack') : k = i + 1}}
    BY <1>1 DEF Needs
  <1>5. QED BY <1>1, <1>2, <1>3, <1>4 DEF Coloured, Needs

LEMMA LeaveColoured ==
    ASSUME Basic, Coloured, stack # <<>>, Leave, UNCHANGED <<foundVars, chain, roots>>
    PROVE  Coloured'
  <1> DEFINE n == Len(stack)
             t == Top.node
  <1>1. /\ n \in Nat \ {0} /\ Top = stack[n]
        /\ Len(stack') = n - 1 /\ \A i \in 1..(n - 1) : stack'[i] = stack[i]
        /\ Top.deps = <<>> /\ visited' = visited
    <2>1. n \in Nat \ {0} /\ Top = stack[n]
      BY StackFacts DEF Basic, Top, Last
    <2>2. Len(stack') = n - 1 /\ \A i \in 1..(n - 1) : stack'[i] = stack[i]
      BY LeaveMoves DEF Basic
    <2>3. QED BY <2>1, <2>2 DEF Leave
  <1>2. /\ \A i \in 1..(n - 1) : stack[i].node # t
        /\ Nodes = Nodes' \cup {t} /\ t \notin Nodes'
    <2>1. \A i \in 1..n : i = n \/ i \in 1..(n - 1)
      BY <1>1
    <2>2. \A i \in 1..(n - 1) : i \in 1..n /\ i # n
      BY <1>1
    <2>3. n \in 1..n /\ t = stack[n].node
      BY <1>1
    <2>4. \A i \in 1..(n - 1) : stack[i].node # t
      BY <2>2, <2>3 DEF Coloured
    <2>5. Nodes' = {stack[i].node : i \in 1..(n - 1)}
      BY <1>1 DEF Nodes
    <2>6. QED BY <2>1, <2>2, <2>3, <2>4, <2>5 DEF Nodes
  <1>3. t \in visited /\ t \in Resolved /\ t \notin Black
    BY <1>2 DEF Coloured, Black
  <1>4. Needs(t) \cap Resolved \subseteq Black
    <2>1. n \in 1..n /\ {k \in 1..n : k = n + 1} = {}
      BY <1>1
    <2>2. Needs(stack[n].node) \cap Resolved \subseteq Black \cup ToSet(stack[n].deps)
      BY <2>1 DEF Coloured
    <2>3. QED BY <1>1, <2>2, InjectiveEmpty
  <1> DEFINE B == Black \cup {t}
  <1>5. B = (visited \ Nodes)'
    BY <1>1, <1>2, <1>3 DEF Black
  <1>6. Acyclic(B)
    <2>1. Black \subseteq Resolved
      BY DEF Coloured, Black
    <2>2. QED BY <1>3, <1>4, <2>1, BlackGrows DEF Coloured
  <1>7. \A b \in B : Needs(b) \cap Resolved \subseteq B
    BY <1>4 DEF Coloured
  <1>8. ASSUME NEW i \in 1..(n - 1)
        PROVE  Needs(stack'[i].node) \cap Resolved \subseteq
                 B \cup ToSet(stack'[i].deps)
                   \cup {stack'[j].node : j \in {k \in 1..(n - 1) : k = i + 1}}
    <2>1. i \in 1..n /\ stack'[i] = stack[i]
      BY <1>1
    <2>2. ASSUME NEW k \in 1..n, k = i + 1
          PROVE  stack[k].node \in B \cup {stack'[j].node : j \in {l \in 1..(n - 1) : l = i + 1}}
      <3>1. CASE k = n
        BY <1>1, <3>1
      <3>2. CASE k # n
        <4>1. k \in 1..(n - 1)
          BY <1>1, <2>2, <3>2
        <4>2. QED BY <1>1, <2>2, <4>1
      <3>3. QED BY <3>1, <3>2
    <2>3. Needs(stack[i].node) \cap Resolved \subseteq
            Black \cup ToSet(stack[i].deps)
              \cup {stack[j].node : j \in {k \in 1..n : k = i + 1}}
      BY <2>1 DEF Coloured
    <2>4. QED BY <2>1, <2>2, <2>3
  <1> HIDE DEF B, t
  <1>9. \A i, j \in 1..(n - 1) : stack'[i].node = stack'[j].node => i = j
    BY <1>1 DEF Coloured
  <1>10. /\ Nodes' \subseteq visited' /\ visited' \subseteq Resolved
         /\ Resolved \subseteq visited' \cup ToSet(roots')
    BY <1>1, <1>2 DEF Coloured
  <1>11. QED BY <1>1, <1>5, <1>6, <1>7, <1>8, <1>9, <1>10, ColouredNext

LEMMA PassColoured ==
    ASSUME Basic, Coloured, stack # <<>>, Top.deps # <<>>, ~Gray(Head(Top.deps)),
           Pass(Head(Top.deps)), UNCHANGED <<foundVars, chain, roots>>
    PROVE  Coloured'
  <1> DEFINE n == Len(stack)
             d == Head(Top.deps)
  <1>1. /\ n \in Nat \ {0} /\ Top = stack[n] /\ Len(stack') = n /\ visited' = visited
        /\ \A i \in 1..(n - 1) : stack'[i] = stack[i]
        /\ stack'[n] = [node |-> Top.node, deps |-> Tail(Top.deps)]
        /\ ToSet(Top.deps) = {d} \cup ToSet(Tail(Top.deps))
    <2>1. n \in Nat \ {0} /\ Top = stack[n]
      BY StackFacts DEF Basic, Top, Last
    <2>2. /\ Len(stack') = n /\ \A i \in 1..(n - 1) : stack'[i] = stack[i]
          /\ stack'[n] = [node |-> Top.node, deps |-> Tail(Top.deps)]
          /\ ToSet(Top.deps) = {d} \cup ToSet(Tail(Top.deps))
      BY AdvanceMoves DEF Basic, Pass
    <2>3. QED BY <2>1, <2>2 DEF Pass
  <1>2. d \notin Resolved \/ d \in Black
    BY PathNodes DEF Basic, Pass, Gray, Black
  <1> HIDE DEF d
  <1>3. \A i \in 1..n : stack'[i].node = stack[i].node
    <2>1. \A i \in 1..n : i = n \/ i \in 1..(n - 1)
      BY <1>1
    <2>2. stack'[n].node = stack[n].node
      BY <1>1
    <2>3. QED BY <1>1, <2>1, <2>2
  <1>4. Nodes' = Nodes
    BY <1>1, <1>3 DEF Nodes
  <1>5. ASSUME NEW i \in 1..n
        PROVE  Needs(stack'[i].node) \cap Resolved \subseteq
                 Black \cup ToSet(stack'[i].deps)
                   \cup {stack'[j].node : j \in {k \in 1..n : k = i + 1}}
    <2>1. Needs(stack[i].node) \cap Resolved \subseteq
            Black \cup ToSet(stack[i].deps)
              \cup {stack[j].node : j \in {k \in 1..n : k = i + 1}}
      BY DEF Coloured
    <2>2. ToSet(stack[i].deps) \cap Resolved \subseteq Black \cup ToSet(stack'[i].deps)
      <3>1. CASE i = n
        <4>1. stack'[n].deps = Tail(Top.deps)
          BY <1>1
        <4>2. QED BY <1>1, <1>2, <3>1, <4>1
      <3>2. CASE i # n
        <4>1. i \in 1..(n - 1)
          BY <1>1, <3>2
        <4>2. QED BY <1>1, <4>1
      <3>3. QED BY <3>1, <3>2
    <2>3. QED BY <1>3, <2>1, <2>2
  <1>6. Black = (visited \ Nodes)'
    BY <1>1, <1>4 DEF Black
  <1>7. \A i, j \in 1..n : stack'[i].node = stack'[j].node => i = j
    BY <1>3 DEF Coloured
  <1>8. /\ Nodes' \subseteq visited' /\ visited' \subseteq Resolved
        /\ Resolved \subseteq visited' \cup ToSet(roots')
        /\ \A b \in Black : Needs(b) \cap Resolved \subseteq Black
        /\ Acyclic(Black)
    BY <1>1, <1>4 DEF Coloured
  <1>9. QED BY <1>1, <1>5, <1>6, <1>7, <1>8, ColouredNext

LEMMA EnterColoured ==
    ASSUME Basic, Coloured, stack # <<>>, Top.deps # <<>>,
           Enter(Head(Top.deps)), UNCHANGED <<foundVars, chain, roots>>
    PROVE  Coloured'
  <1> DEFINE n == Len(stack)
             d == Head(Top.deps)
  <1>1. /\ n \in Nat \ {0} /\ Top = stack[n] /\ Len(stack') = n + 1
        /\ \A i \in 1..(n - 1) : stack'[i] = stack[i]
        /\ stack'[n] = [node |-> Top.node, deps |-> Tail(Top.deps)]
        /\ stack'[n + 1] = [node |-> d, deps |-> requires[d]]
        /\ ToSet(Top.deps) = {d} \cup ToSet(Tail(Top.deps))
    <2>1. n \in Nat \ {0} /\ Top = stack[n]
      BY StackFacts DEF Basic, Top, Last
    <2>2. /\ Len(stack') = n + 1 /\ \A i \in 1..(n - 1) : stack'[i] = stack[i]
          /\ stack'[n] = [node |-> Top.node, deps |-> Tail(Top.deps)]
          /\ stack'[n + 1] = [node |-> d, deps |-> requires[d]]
      BY EnterMoves DEF Basic
    <2>3. ToSet(Top.deps) = {d} \cup ToSet(Tail(Top.deps))
      BY AdvanceMoves DEF Basic
    <2>4. QED BY <2>1, <2>2, <2>3
  <1>2. d \in Resolved /\ d \notin visited /\ visited' = visited \cup {d}
    BY DEF Enter
  <1> HIDE DEF d
  <1>3. /\ \A i \in 1..n : stack'[i].node = stack[i].node
        /\ stack'[n + 1].node = d /\ stack'[n + 1].deps = requires[d]
    <2>1. \A i \in 1..n : i = n \/ i \in 1..(n - 1)
      BY <1>1
    <2>2. stack'[n].node = stack[n].node
      BY <1>1
    <2>3. QED BY <1>1, <2>1, <2>2
  <1>4. \A i \in 1..(n + 1) : i \in 1..n \/ i = n + 1
    BY <1>1
  <1>5. n + 1 \in 1..(n + 1) /\ \A i \in 1..n : i \in 1..(n + 1)
    BY <1>1
  <1>6. Nodes' = Nodes \cup {d}
    <2>1. Nodes' = {stack'[i].node : i \in 1..(n + 1)}
      BY <1>1 DEF Nodes
    <2>2. Nodes' \subseteq {stack[i].node : i \in 1..n} \cup {d}
      BY <1>3, <1>4, <2>1
    <2>3. {stack[i].node : i \in 1..n} \cup {d} \subseteq Nodes'
      BY <1>3, <1>5, <2>1
    <2>4. QED BY <2>2, <2>3 DEF Nodes
  <1>7. Black = (visited \ Nodes)'
    BY <1>2, <1>6 DEF Black
  <1>8. ASSUME NEW i \in 1..(n + 1)
        PROVE  Needs(stack'[i].node) \cap Resolved \subseteq
                 Black \cup ToSet(stack'[i].deps)
                   \cup {stack'[j].node : j \in {k \in 1..(n + 1) : k = i + 1}}
    <2>1. CASE i = n + 1
      BY <1>3, <2>1 DEF Needs
    <2>2. CASE i \in 1..n
      <3>1. Needs(stack[i].node) \cap Resolved \subseteq
              Black \cup ToSet(stack[i].deps)
                \cup {stack[j].node : j \in {k \in 1..n : k = i + 1}}
        BY <2>2 DEF Coloured
      <3>2. {stack[j].node : j \in {k \in 1..n : k = i + 1}} \subseteq
              {stack'[j].node : j \in {k \in 1..(n + 1) : k = i + 1}}
        BY <1>3, <1>5
      <3>3. ToSet(stack[i].deps) \subseteq
              ToSet(stack'[i].deps)
                \cup {stack'[j].node : j \in {k \in 1..(n + 1) : k = i + 1}}
        <4>1. CASE i = n
          <5>1. stack'[i].deps = Tail(Top.deps) /\ stack[i] = Top
            BY <1>1, <4>1
          <5>2. d \in {stack'[j].node : j \in {k \in 1..(n + 1) : k = i + 1}}
            BY <1>3, <1>5, <4>1
          <5>3. QED BY <1>1, <5>1, <5>2
        <4>2. CASE i # n
          <5>1. i \in 1..(n - 1)
            BY <1>1, <2>2, <4>2
          <5>2. QED BY <1>1, <5>1
        <4>3. QED BY <4>1, <4>2
      <3>4. stack'[i].node = stack[i].node
        BY <1>3, <2>2
      <3>5. QED BY <3>1, <3>2, <3>3, <3>4
    <2>3. QED BY <1>4, <2>1, <2>2
  <1>9. \A i \in 1..n : stack[i].node # d
    BY <1>2 DEF Coloured, Nodes
  <1>10. ASSUME NEW i \in 1..(n + 1), NEW j \in 1..(n + 1), stack'[i].node = stack'[j].node
         PROVE  i = j
    <2>1. CASE i \in 1..n /\ j \in 1..n
      BY <1>3, <1>10, <2>1 DEF Coloured
    <2>2. CASE i \in 1..n /\ j = n + 1
      BY <1>3, <1>9, <1>10, <2>2
    <2>3. CASE j \in 1..n /\ i = n + 1
      BY <1>3, <1>9, <1>10, <2>3
    <2>4. QED BY <1>4, <2>1, <2>2, <2>3
  <1>11. /\ Nodes' \subseteq visited' /\ visited' \subseteq Resolved
         /\ Resolved \subseteq visited' \cup ToSet(roots')
         /\ \A b \in Black : Needs(b) \cap Resolved \subseteq Black
         /\ Acyclic(Black)
    BY <1>2, <1>6 DEF Coloured
  <1>12. QED BY <1>1, <1>7, <1>8, <1>10, <1>11, ColouredNext

LEMMA RootColoured ==
    ASSUME Basic, Coloured, CycleRoot PROVE Coloured'
  <1> DEFINE r == Head(roots)
  <1>1. /\ stack = <<>> /\ roots # <<>> /\ roots' = Tail(roots)
        /\ UNCHANGED <<foundVars, chain>>
    BY DEF CycleRoot
  <1>2. r \in Resolved /\ ToSet(roots) = {r} \cup ToSet(roots')
    BY <1>1, NextRoot, TailSet DEF Basic, TypeOK
  <1>3. Nodes = {} /\ Black = visited
    BY <1>1 DEF Nodes, Black
  <1>4. CASE r \in visited
    <2>1. stack' = <<>> /\ visited' = visited
      BY <1>1, <1>4 DEF CycleRoot
    <2>2. Nodes' = {} /\ Len(stack') = 0
      BY <2>1 DEF Nodes
    <2>3. Black = (visited \ Nodes)'
      BY <1>3, <2>1, <2>2
    <2>4. /\ visited' \subseteq Resolved /\ Resolved \subseteq visited' \cup ToSet(roots')
          /\ \A b \in Black : Needs(b) \cap Resolved \subseteq Black
          /\ Acyclic(Black)
      BY <1>2, <1>4, <2>1 DEF Coloured
    <2>5. \A i \in 1..Len(stack') : FALSE
      BY <2>2
    <2>6. QED BY <1>1, <2>2, <2>3, <2>4, <2>5, ColouredNext
  <1>5. CASE r \notin visited
    <2>1. stack' = <<Frame(r)>> /\ visited' = visited \cup {r}
      BY <1>1, <1>5 DEF CycleRoot
    <2>2. /\ Len(stack') = 1 /\ stack'[1].node = r /\ stack'[1].deps = requires[r]
      BY <2>1 DEF Frame
    <2> HIDE DEF r
    <2>3. \A i \in 1..Len(stack') : i = 1
      BY <2>2
    <2>4. Nodes' = {r}
      BY <2>2 DEF Nodes
    <2>5. Black = (visited \ Nodes)'
      BY <1>3, <1>5, <2>1, <2>4
    <2>6. \A i \in 1..Len(stack') : Needs(stack'[i].node) \subseteq ToSet(stack'[i].deps)
      BY <2>2, <2>3 DEF Needs
    <2>7. /\ Nodes' \subseteq visited' /\ visited' \subseteq Resolved
          /\ Resolved \subseteq visited' \cup ToSet(roots')
          /\ \A b \in Black : Needs(b) \cap Resolved \subseteq Black
          /\ Acyclic(Black)
      BY <1>2, <1>3, <2>1, <2>4 DEF Coloured
    <2>8. QED BY <1>1, <2>3, <2>5, <2>6, <2>7, ColouredNext
  <1>6. QED BY <1>4, <1>5

LEMMA NextSearched ==
    ASSUME Basic, Searched, [Next]_vars PROVE Searched'
  <1>1. CASE ClosureEnds
    <2>1. /\ pc' = "cycle" /\ stack' = <<>> /\ visited' = {} /\ roots' = resolved
          /\ UNCHANGED <<foundVars, chain>>
      BY <1>1 DEF ClosureEnds, Basic, Quiet
    <2>2. Len(stack') = 0 /\ Nodes' = {} /\ {} = (visited \ Nodes)' /\ ToSet(roots') = Resolved
      BY <2>1 DEF Nodes, Resolved
    <2>3. Acyclic({}) /\ \A i \in 1..Len(stack') : FALSE
      BY <2>2 DEF Acyclic
    <2>4. Coloured'
      BY <2>1, <2>2, <2>3, ColouredNext
    <2>5. QED BY <2>1, <2>4 DEF Searched
  <1>2. CASE CycleRoot
    <2>1. pc = "cycle" /\ pc' = "cycle"
      BY <1>2 DEF CycleRoot
    <2>2. QED BY <1>2, <2>1, RootColoured DEF Searched
  <1>3. CASE CycleSearch
    <2>1. /\ pc = "cycle" /\ pc' = "cycle" /\ stack # <<>>
          /\ UNCHANGED <<foundVars, chain, roots>>
      BY <1>3 DEF CycleSearch, Search
    <2>2. Coloured
      BY <2>1 DEF Searched
    <2>3. CASE Leave
      BY <2>1, <2>2, <2>3, LeaveColoured DEF Searched
    <2>4. CASE Top.deps # <<>> /\ ~Gray(Head(Top.deps)) /\ Pass(Head(Top.deps))
      BY <2>1, <2>2, <2>4, PassColoured DEF Searched
    <2>5. CASE Top.deps # <<>> /\ Enter(Head(Top.deps))
      BY <2>1, <2>2, <2>5, EnterColoured DEF Searched
    <2>6. QED BY <1>3, <2>3, <2>4, <2>5 DEF CycleSearch, Search
  <1>4. CASE NoCycle
    <2>1. /\ pc = "cycle" /\ pc' = "cascade" /\ stack = <<>> /\ roots = <<>>
          /\ UNCHANGED <<foundVars, chain>> /\ Cascaded = {}
      BY <1>4 DEF NoCycle, Basic, Quiet
    <2>2. Black = visited /\ Resolved \subseteq visited /\ Acyclic(Black)
      BY <2>1, InjectiveEmpty DEF Searched, Coloured, Black, Nodes
    <2>3. Acyclic(Resolved)
      BY <2>2, AcyclicPart
    <2>4. Resolved' \cup Cascaded' = Resolved /\ requires' = requires
      BY <2>1 DEF Resolved, Cascaded, foundVars
    <2>5. QED BY <2>1, <2>3, <2>4, AcyclicSame DEF Searched, Acyclic
  <1>5. CASE CascadeRound \/ CascadeRoot \/ CascadeSearch \/ BuildReport
    <2>1. pc = "cascade" /\ pc' # "cycle" /\ UNCHANGED <<foundVars, chain>>
      BY <1>5 DEF CascadeRound, CascadeRoot, CascadeSearch, Search, BuildReport
    <2>2. Resolved' \cup Cascaded' = Resolved \cup Cascaded /\ requires' = requires
      BY <2>1 DEF Resolved, Cascaded, foundVars
    <2>3. Acyclic(Resolved \cup Cascaded)
      BY <2>1 DEF Searched
    <2>4. QED BY <2>1, <2>2, <2>3, AcyclicSame DEF Searched, Acyclic
  <1>6. CASE CascadeFound
    <2>1. pc = "cascade" /\ pc' = pc /\ requires' = requires
      BY <1>6 DEF CascadeFound, Found
    <2>2. Resolved' \cup Cascaded' = Resolved \cup Cascaded
      BY <1>6, Dropped
    <2>3. Acyclic(Resolved \cup Cascaded)
      BY <2>1 DEF Searched
    <2>4. QED BY <2>1, <2>2, <2>3, AcyclicSame DEF Searched, Acyclic
  <1>7. CASE SeedPhase \/ SkipKnown \/ QueryRaises \/ NoCompatibleVersion
             \/ (\E deps \in DepLists : RecordResolved(deps)) \/ CycleFound
    <2>1. pc' \notin {"cycle", "cascade", "done"}
      BY <1>7 DEF SeedPhase, SkipKnown, QueryRaises, NoCompatibleVersion,
           RecordResolved, Asked, CycleFound
    <2>2. QED BY <2>1 DEF Searched
  <1>8. CASE UNCHANGED vars
    BY <1>8 DEF vars, searchVars, foundVars, Searched, Coloured, Black, Nodes, Acyclic, Needs,
         Resolved, Cascaded
  <1>9. QED
    BY <1>1, <1>2, <1>3, <1>4, <1>5, <1>6, <1>7, <1>8 DEF Next

\* The chain that the command prints.
IsCycle ==
    /\ Len(cycle) > 1 /\ cycle[1] = Last(cycle)
    /\ \A i \in 1..(Len(cycle) - 1) : cycle[i + 1] \in Needs(cycle[i])

LEMMA CycleShown ==
    ASSUME Basic, CycleFound PROVE IsCycle'
  <1> DEFINE n == Len(stack)
             d == Head(Top.deps)
  <1>1. /\ stack # <<>> /\ Top.deps # <<>> /\ requires' = requires
    BY DEF CycleFound, Found, foundVars
  <1>2. /\ n \in Nat \ {0} /\ Path \in Seq(Mods) /\ DOMAIN Path = 1..n /\ Len(Path) = n
        /\ \A i \in 1..n : Path[i] = stack[i].node
    BY <1>1, StackFacts DEF Basic
  <1>3. d \in Needs(Path[n])
    <2>1. Top = stack[n] /\ d \in ToSet(Top.deps)
      BY <1>1, AdvanceMoves DEF Basic
    <2>2. ToSet(stack[n].deps) \subseteq Needs(stack[n].node)
      BY <1>2 DEF Basic, Linked
    <2>3. QED BY <1>2, <2>1, <2>2
  <1>4. \A i \in 1..(n - 1) : Path[i + 1] \in Needs(Path[i])
    <2>1. \A i \in 1..(n - 1) : i \in 1..n /\ i + 1 \in 1..n
      BY <1>2
    <2>2. QED BY <1>2, <2>1 DEF Basic, Linked
  <1>5. PICK k \in 1..n : Path[k] = d /\ cycle' = Append(SubSeq(Path, k, n), Path[k])
    BY <1>2 DEF CycleFound
  <1> HIDE DEF d, n
  <1> DEFINE a == SubSeq(Path, k, n)
             l == (n - k) + 1
  <1>6. /\ a \in Seq(Mods) /\ Len(a) = l
        /\ \A i \in 1..l : a[i] = Path[(k + i) - 1]
    <2>1. \A j \in k..n : Path[j] \in Mods
      BY <1>2, LenProperties
    <2>2. /\ a \in Seq(Mods) /\ Len(a) = l
          /\ \A i \in 1..((n - k) + 1) : a[i] = Path[k + i - 1]
      BY <1>2, <2>1, SubSeqProperties
    <2>3. QED BY <2>2
  <1>7. l \in Nat \ {0} /\ k + l = n + 1 /\ Path[k] \in Mods
    BY <1>2, LenProperties
  <1> HIDE DEF a, l
  <1>8. /\ Len(cycle') = l + 1 /\ cycle'[l + 1] = d
        /\ \A i \in 1..l : cycle'[i] = a[i]
    <2>1. cycle' = Append(a, Path[k])
      BY <1>5 DEF a
    <2>2. QED BY <1>5, <1>6, <1>7, <2>1, AppendProperties
  <1>9. cycle'[1] = d
    <2>1. 1 \in 1..l /\ (k + 1) - 1 = k
      BY <1>7
    <2>2. a[1] = Path[(k + 1) - 1]
      BY <1>6, <2>1
    <2>3. QED BY <1>5, <1>8, <2>1, <2>2
  <1>10. ASSUME NEW i \in 1..l
         PROVE  cycle'[i + 1] \in Needs(cycle'[i])
    <2>1. cycle'[i] = Path[(k + i) - 1]
      BY <1>6, <1>8
    <2>2. CASE i = l
      <3>1. (k + i) - 1 = n
        BY <1>2, <1>7, <2>2
      <3>2. QED BY <1>3, <1>8, <2>1, <2>2, <3>1
    <2>3. CASE i # l
      <3>1. /\ i + 1 \in 1..l /\ (k + (i + 1)) - 1 = ((k + i) - 1) + 1
            /\ (k + i) - 1 \in 1..(n - 1)
        BY <1>2, <1>7, <2>3
      <3>2. cycle'[i + 1] = Path[(k + (i + 1)) - 1]
        BY <1>6, <1>8, <3>1
      <3>3. QED BY <1>4, <2>1, <3>1, <3>2
    <2>4. QED BY <2>2, <2>3
  <1>11. Len(cycle') > 1 /\ Len(cycle') - 1 = l /\ Last(cycle') = d
    BY <1>7, <1>8 DEF Last
  <1>12. ASSUME NEW i \in 1..(Len(cycle') - 1)
         PROVE  cycle'[i + 1] \in ToSet(requires'[cycle'[i]])
    BY <1>1, <1>10, <1>11 DEF Needs
  <1>13. QED BY <1>9, <1>11, <1>12 DEF IsCycle, Needs

LEMMA NextVerdict ==
    ASSUME Basic, Searched, pc = "cyclic" => IsCycle, [Next]_vars
    PROVE  (pc = "cyclic" => IsCycle)'
  <1>1. CASE CycleFound
    BY <1>1, CycleShown
  <1>2. CASE Next /\ ~CycleFound
    BY <1>2 DEF Next, SeedPhase, SkipKnown, QueryRaises, NoCompatibleVersion,
         RecordResolved, Asked, ClosureEnds, CycleRoot, CycleSearch, Search, NoCycle,
         CascadeRound, CascadeRoot, CascadeSearch, CascadeFound, Found, BuildReport
  <1>3. CASE UNCHANGED vars
    BY <1>3 DEF vars, endVars, foundVars, IsCycle, Needs
  <1>4. QED BY <1>1, <1>2, <1>3

\* The command refuses a cycle only if there is one, and one it prints; and what it goes
\* on with has none, however the dependencies are tangled (resolver.py:275-319).
THEOREM CyclesCorrect == Spec => []CycleVerdict
  <1> DEFINE Inv == Basic /\ Searched /\ (pc = "cyclic" => IsCycle)
  <1>1. Init => Inv
    BY InitBasic DEF Init, Searched
  <1>2. Inv /\ [Next]_vars => Inv'
    <2>1. SUFFICES ASSUME Inv, [Next]_vars PROVE Inv'
      OBVIOUS
    <2>2. QED BY <2>1, NextBasic, NextSearched, NextVerdict
  <1>3. Inv => CycleVerdict
    BY DEF Searched, IsCycle, CycleVerdict
  <1>4. QED BY <1>1, <1>2, <1>3, PTL DEF Spec
----------------------------------------------------------------------------
(* Materialize: its types. *)

MatTypeOK ==
    /\ mat \in {"update", "ready", "fetch", "metadata", "sealed"}
    /\ warehouse \in [Mods -> Bytes \cup {Torn, Absent}]
    /\ slip = None \/ slip \in Hashes
    /\ fetched \in Hashes
    /\ request = None \/ request \in Requests
    /\ used \in [Kinds -> Nat] /\ sent \in [Kinds -> Nat]
    /\ torn \in BOOLEAN /\ lapses \in Nat
    /\ other \in Kinds \cup {None}
    /\ rival \in Projects \cup {None}
    /\ overwritten \subseteq Mods

\* Requests of a kind that were found within the budget, by what they may take of it: not
\* yet sent, or answered and not yet recorded, and the one of another command.
Sending(k) == IF At("send") /\ KindAsked = k THEN Heaviest(k) ELSE 0
Unrecorded(k) ==
    IF (\E answer \in Answers : At(answer)) /\ KindAsked = k THEN request.weight ELSE 0
OthersSend(k) == IF other # None /\ other = k THEN Heaviest(k) ELSE 0

\* The log misses two answers for each lapse, one of which it has not missed yet while
\* its last line is torn.
Dangling(k) == IF torn THEN Heaviest(k) ELSE 0
Missed(k) == 2 * lapses * Heaviest(k)

\* What the log counts, with what may still be recorded, exceeds the budget by less than
\* the two answers that were asked for at the same time; what it does not count is what
\* it has missed.
Accounted ==
    /\ torn => lapses >= 1
    /\ \A k \in Kinds :
         /\ Unrecorded(k) <= Heaviest(k)
         /\ Cap[k] = 0 => Sending(k) + Unrecorded(k) + OthersSend(k) = 0
         /\ used[k] + Sending(k) + Unrecorded(k) + OthersSend(k) < Cap[k] + 2 * Heaviest(k)
         /\ sent[k] + Dangling(k) <= used[k] + Unrecorded(k) + Missed(k)

\* A list of hashes names the jars of the report and of those no other, with the
\* hash that the jar has in the warehouse unless that has been overwritten.
Lists(hashes, jars) ==
    \A m \in Mods :
        IF m \in jars
        THEN /\ hashes[m] # None
             /\ m \in overwritten \/ hashes[m] = warehouse[m]
             /\ m \in Files => hashes[m] = Right
        ELSE hashes[m] = None

Stored ==
    /\ mat = "update" => slip = None /\ overwritten = {} /\ rival = None
    /\ mat \in {"update", "ready"} => request = None /\ \A m \in Mods : fetched[m] = None
    /\ request # None => mat = "fetch" /\ request.mod \in todo
    /\ mat = "fetch" => todo \subseteq Shipped
    /\ mat \in {"metadata", "sealed"} => todo = {}
    /\ mat \in {"fetch", "metadata", "sealed"} => Lists(fetched, Shipped \ todo)
    /\ slip # None => Lists(slip, Shipped)
    /\ mat = "sealed" \/ status = "materialized" => slip # None
    /\ At("copy") => slip = None /\ request.jar \in Bytes
    /\ \A m \in Mods : /\ warehouse[m] = Torn => m \in overwritten
                       /\ warehouse[m] = Absent => m \notin overwritten

MatInv == MatTypeOK /\ Accounted /\ Stored

LEMMA InitMatTyped == MatInit => MatTypeOK
  <1> SUFFICES ASSUME MatInit PROVE MatTypeOK
    OBVIOUS
  <1>1. warehouse \in [Mods -> Bytes \cup {Torn, Absent}] /\ fetched \in Hashes
    BY DEF MatInit, Hashes, Bytes
  <1>2. used \in [Kinds -> Nat] /\ sent \in [Kinds -> Nat]
    BY DEF MatInit
  <1>3. QED BY <1>1, <1>2 DEF MatInit, MatTypeOK

\* A request goes on: what it may become, and what it is of.
Steps == {"check", "send", "answered", "hints", "copy"} \cup Answers

LEMMA RequestKind ==
    ASSUME NEW r \in Requests
    PROVE  r.mod \in Projects /\ Kind(r.stage) \in Kinds
  BY DEF Requests, Kind, Kinds

LEMMA NextStep ==
    ASSUME NEW r \in Requests, NEW step \in Steps
    PROVE  [r EXCEPT !.step = step] \in Requests
  BY DEF Requests, Steps

LEMMA NextTry ==
    ASSUME NEW r \in Requests
    PROVE  [r EXCEPT !.step = "check", !.try = @ + 1] \in Requests
  <1> DEFINE n == r.try + 1
  <1>1. n \in Nat BY DEF Requests
  <1>2. [r EXCEPT !.step = "check", !.try = @ + 1] = [r EXCEPT !.step = "check", !.try = n]
    OBVIOUS
  <1> HIDE DEF n
  <1>3. [r EXCEPT !.step = "check", !.try = n] \in Requests
    BY <1>1 DEF Requests
  <1>4. QED BY <1>2, <1>3

LEMMA NewRequest ==
    ASSUME NEW m \in Projects, NEW stage \in {"versions", "project", "artifact"}
    PROVE  Request(m, stage) \in Requests
  BY DEF Request, Requests

\* What an answer weighs.
LEMMA Weighed ==
    ASSUME NEW k \in Kinds
    PROVE  /\ Heaviest(k) \in Nat \ {0}
           /\ \A w \in Weights(k) : w \in Nat /\ w <= Heaviest(k)
  BY MaterializeAssumption DEF Kinds, Weights, Heaviest

LEMMA NextAnswer ==
    ASSUME NEW r \in Requests, NEW answer \in Answers, NEW w \in Nat
    PROVE  /\ [r EXCEPT !.step = answer, !.weight = w] \in Requests
           /\ [r EXCEPT !.step = answer, !.weight = w].step = answer
           /\ [r EXCEPT !.step = answer, !.weight = w].stage = r.stage
           /\ [r EXCEPT !.step = answer, !.weight = w].mod = r.mod
           /\ [r EXCEPT !.step = answer, !.weight = w].weight = w
  BY DEF Requests

LEMMA NextCopy ==
    ASSUME NEW r \in Requests, NEW bytes \in Bytes
    PROVE  /\ [r EXCEPT !.step = "copy", !.jar = bytes] \in Requests
           /\ [r EXCEPT !.step = "copy", !.jar = bytes].step = "copy"
           /\ [r EXCEPT !.step = "copy", !.jar = bytes].mod = r.mod
           /\ [r EXCEPT !.step = "copy", !.jar = bytes].jar = bytes
  BY DEF Requests

LEMMA RecordedTyped ==
    ASSUME MatTypeOK, NEW k \in Kinds, NEW w \in Nat, Recorded(k, w)
    PROVE  used' \in [Kinds -> Nat] /\ torn' \in BOOLEAN
  <1>1. used \in [Kinds -> Nat] BY DEF MatTypeOK
  <1>2. CASE torn
    BY <1>1, <1>2 DEF Recorded
  <1>3. CASE ~torn
    <2>1. used' = [used EXCEPT ![k] = @ + w] /\ torn' = FALSE
      BY <1>3 DEF Recorded
    <2> DEFINE n == used[k] + w
    <2>2. n \in Nat BY <1>1
    <2>3. used' = [used EXCEPT ![k] = n] BY <2>1
    <2> HIDE DEF n
    <2>4. QED BY <1>1, <2>1, <2>2, <2>3
  <1>4. QED BY <1>2, <1>3

LEMMA NothingFetched == [m \in Mods |-> None] \in Hashes
  BY DEF Hashes

\* Steps that change the request only, or give up the fetching.
LEMMA OnlyRequest ==
    ASSUME MatTypeOK, request' \in Requests,
           UNCHANGED <<vars, mat, fileVars, todo, fetched, usageVars, buildVars>>
    PROVE  MatTypeOK'
  BY DEF MatTypeOK, vars, inputVars, fileVars, usageVars, buildVars

LEMMA Ended ==
    ASSUME MatTypeOK, Quits, UNCHANGED <<vars, fileVars, buildVars>>,
           used' \in [Kinds -> Nat], sent' \in [Kinds -> Nat], torn' \in BOOLEAN,
           lapses' \in Nat, other' \in Kinds \cup {None}
    PROVE  MatTypeOK'
  BY NothingFetched DEF MatTypeOK, Quits, vars, inputVars, fileVars, buildVars

LEMMA GivenUp ==
    ASSUME MatTypeOK, GivesUp, request \in Requests, UNCHANGED <<vars, fileVars, buildVars>>,
           used' \in [Kinds -> Nat], sent' \in [Kinds -> Nat], torn' \in BOOLEAN,
           lapses' \in Nat, other' \in Kinds \cup {None}
    PROVE  MatTypeOK'
  <1>1. CASE Quits
    BY <1>1, Ended
  <1>2. CASE ~Quits
    <2>1. request' = [request EXCEPT !.step = "hints"] /\ UNCHANGED <<mat, todo, fetched>>
      BY <1>2 DEF GivesUp
    <2>2. request' \in Requests
      <3>1. "hints" \in Steps BY DEF Steps
      <3>2. QED BY <2>1, <3>1, NextStep, Zenon
    <2>3. UNCHANGED <<mat, todo, fetched>> BY <2>1
    <2>4. QED BY <2>2, <2>3 DEF MatTypeOK, vars, inputVars, fileVars, buildVars
  <1>3. QED BY <1>1, <1>2

\* What the resolver and update do to it.
LEMMA UpdateMatTyped ==
    ASSUME MatTypeOK, Resolve \/ UpdateEnds PROVE MatTypeOK'
  <1>1. CASE Resolve
    BY <1>1 DEF Resolve, MatTypeOK, matVars, fileVars, fetchVars, usageVars, buildVars
  <1>2. CASE UpdateEnds
    <2>1. PICK jars \in [Shipped \cap Projects -> {Right, Other, Absent}] :
            warehouse' = [m \in Mods |-> IF m \in DOMAIN jars THEN jars[m] ELSE warehouse[m]]
      BY <1>2 DEF UpdateEnds, Shipped
    <2>2. warehouse' \in [Mods -> Bytes \cup {Torn, Absent}]
      BY <2>1 DEF MatTypeOK, Bytes
    <2>3. QED
      BY <1>2, <2>2 DEF UpdateEnds, MatTypeOK, inputVars, fetchVars, usageVars, buildVars
  <1>3. QED BY <1>1, <1>2

LEMMA NextMatTyped ==
    ASSUME MatTypeOK, Stored, [MatNext]_<<vars, matVars>> PROVE MatTypeOK'
  <1>1. CASE Materialize \/ Others
    <2>1. CASE Begin
      BY <2>1 DEF Begin, MatTypeOK, vars, inputVars, fileVars, fetchVars, usageVars,
         buildVars, Quits
    <2>2. ASSUME NEW m \in Mods, VerifyInHouse(m) PROVE MatTypeOK'
      BY <2>2, NothingFetched DEF VerifyInHouse, Fetching, Got, Hashes, Bytes,
         MatTypeOK, vars, inputVars, fileVars, fetchVars, usageVars, buildVars, Quits
    <2>3. ASSUME NEW m \in Mods, Query(m) PROVE MatTypeOK'
      BY <2>3, NewRequest DEF Query, Fetching, MatTypeOK, vars, inputVars, fileVars,
         fetchVars, usageVars, buildVars, Quits
    <2>4. CASE CheckCap
      <3>1. /\ request \in Requests /\ "send" \in Steps
            /\ request' = [request EXCEPT !.step = "send"]
        BY <2>4 DEF CheckCap, At, MatTypeOK, Steps
      <3>2. UNCHANGED <<vars, mat, fileVars, todo, fetched, usageVars, buildVars>>
        BY <2>4 DEF CheckCap
      <3>3. request' \in Requests BY <3>1, NextStep, Zenon
      <3>4. QED BY <3>2, <3>3, OnlyRequest
    <2>5. CASE NoBudget
      BY <2>5, NothingFetched DEF NoBudget, At, MatTypeOK, vars, inputVars, fileVars,
         fetchVars, usageVars, buildVars, Quits
    <2>6. CASE NetworkError
      <3>1. request \in Requests BY <2>6 DEF NetworkError, At, MatTypeOK
      <3>2. CASE request.try < MaxRetries
        <4>1. /\ request' = [request EXCEPT !.step = "check", !.try = @ + 1]
              /\ UNCHANGED <<vars, mat, fileVars, todo, fetched, usageVars, buildVars>>
          BY <2>6, <3>2 DEF NetworkError, Again
        <4>2. request' \in Requests BY <3>1, <4>1, NextTry, Zenon
        <4>3. UNCHANGED <<vars, mat, fileVars, todo, fetched, usageVars, buildVars>>
          BY <4>1
        <4>4. QED BY <4>2, <4>3, OnlyRequest
      <3>3. CASE ~(request.try < MaxRetries)
        <4>1. GivesUp /\ UNCHANGED <<vars, fileVars, usageVars, buildVars>>
          BY <2>6, <3>3 DEF NetworkError
        <4>2. UNCHANGED <<used, torn, other, sent, lapses>>
          BY <4>1 DEF usageVars
        <4>3. QED BY <3>1, <4>1, <4>2, GivenUp DEF MatTypeOK
      <3>4. QED BY <3>2, <3>3
    <2>7. ASSUME NEW answer \in Answers, Responds(answer) PROVE MatTypeOK'
      <3>1. PICK w \in Weights(KindAsked) :
              /\ sent' = [sent EXCEPT ![KindAsked] = @ + w]
              /\ request' = [request EXCEPT !.step = answer, !.weight = w]
        BY <2>7 DEF Responds
      <3>2. UNCHANGED <<vars, mat, fileVars, todo, fetched, used, torn, other, lapses,
                         buildVars>>
        BY <2>7 DEF Responds
      <3>3. request \in Requests BY <2>7 DEF Responds, At, MatTypeOK
      <3>4. KindAsked \in Kinds BY <3>3, RequestKind DEF KindAsked
      <3>5. w \in Nat BY <3>1, <3>4, Weighed
      <3>6. request' \in Requests BY <3>1, <3>3, <3>5, NextAnswer, Zenon
      <3> DEFINE n == sent[KindAsked] + w
      <3>7. n \in Nat BY <3>4, <3>5 DEF MatTypeOK
      <3>8. sent' = [sent EXCEPT ![KindAsked] = n] BY <3>1
      <3> HIDE DEF n
      <3>9. sent' \in [Kinds -> Nat] BY <3>4, <3>7, <3>8 DEF MatTypeOK
      <3>10. QED BY <3>2, <3>6, <3>9 DEF MatTypeOK, vars, inputVars, fileVars, buildVars
    <2>8. ASSUME NEW answer \in Answers, RecordCall(answer) PROVE MatTypeOK'
      <3>1. request \in Requests /\ "answered" \in Steps
        BY <2>8 DEF RecordCall, At, MatTypeOK, Steps
      <3>2. /\ Recorded(KindAsked, request.weight)
            /\ UNCHANGED <<vars, fileVars, other, sent, lapses, buildVars>>
        BY <2>8 DEF RecordCall
      <3>3. used' \in [Kinds -> Nat] /\ torn' \in BOOLEAN
        <4>1. request.weight \in Nat BY <3>1 DEF Requests
        <4>2. QED BY <3>1, <3>2, <4>1, RequestKind, RecordedTyped DEF KindAsked
      <3>4. CASE GivesUp
        BY <3>1, <3>2, <3>3, <3>4, GivenUp DEF MatTypeOK
      <3>5. CASE request' \in Requests /\ UNCHANGED <<mat, todo, fetched>>
        BY <3>2, <3>3, <3>5 DEF MatTypeOK, vars, inputVars, fileVars, buildVars
      <3>6. GivesUp \/ (request' \in Requests /\ UNCHANGED <<mat, todo, fetched>>)
        <4>1. CASE answer = "busy" /\ request.try < MaxRetries
          <5>1. /\ request' = [request EXCEPT !.step = "check", !.try = @ + 1]
                /\ UNCHANGED <<mat, todo, fetched>>
            BY <2>8, <4>1 DEF RecordCall, Again
          <5>2. request' \in Requests BY <3>1, <5>1, NextTry, Zenon
          <5>3. UNCHANGED <<mat, todo, fetched>> BY <5>1
          <5>4. QED BY <5>2, <5>3
        <4>2. CASE ~(answer = "busy" /\ request.try < MaxRetries) /\ answer = "ok"
          <5>1. /\ request' = [request EXCEPT !.step = "answered"]
                /\ UNCHANGED <<mat, todo, fetched>>
            BY <2>8, <4>2 DEF RecordCall
          <5>2. request' \in Requests BY <3>1, <5>1, NextStep, Zenon
          <5>3. UNCHANGED <<mat, todo, fetched>> BY <5>1
          <5>4. QED BY <5>2, <5>3
        <4>3. CASE ~(answer = "busy" /\ request.try < MaxRetries) /\ answer # "ok"
          BY <2>8, <4>3 DEF RecordCall
        <4>4. QED BY <4>1, <4>2, <4>3
      <3>7. QED BY <3>4, <3>5, <3>6
    <2>9. ASSUME NEW answer \in Answers, RecordLost(answer) PROVE MatTypeOK'
      <3>1. /\ Quits /\ lapses' = lapses + 1 /\ torn' \in {torn, TRUE}
            /\ UNCHANGED <<vars, fileVars, used, other, sent, buildVars>>
        BY <2>9 DEF RecordLost
      <3>2. lapses' \in Nat
        <4>1. lapses \in Nat /\ lapses' = lapses + 1 BY <3>1 DEF MatTypeOK
        <4>2. QED BY <4>1
      <3>3. torn' \in BOOLEAN
        <4>1. torn \in BOOLEAN /\ torn' \in {torn, TRUE} BY <3>1 DEF MatTypeOK
        <4>2. QED BY <4>1, Zenon
      <3>4. QED BY <3>1, <3>2, <3>3, Ended DEF MatTypeOK
    <2>10. ASSUME NEW next \in {"versions", "project", "artifact"}, VersionsAnswered(next)
           PROVE  MatTypeOK'
      <3>1. /\ request \in Requests
            /\ request' = Request(request.mod, next)
            /\ UNCHANGED <<vars, mat, fileVars, todo, fetched, usageVars, buildVars>>
        BY <2>10 DEF VersionsAnswered, At, MatTypeOK
      <3>2. request.mod \in Projects BY <3>1, RequestKind
      <3>3. request' \in Requests BY <3>1, <3>2, NewRequest
      <3>4. QED BY <3>1, <3>3, OnlyRequest
    <2>11. CASE ProjectAnswered
      <3>1. /\ request \in Requests
            /\ request' = Request(request.mod, "artifact")
            /\ UNCHANGED <<vars, mat, fileVars, todo, fetched, usageVars, buildVars>>
        BY <2>11 DEF ProjectAnswered, At, MatTypeOK
      <3>2. request.mod \in Projects BY <3>1, RequestKind
      <3>3. request' \in Requests BY <3>1, <3>2, NewRequest
      <3>4. QED BY <3>1, <3>3, OnlyRequest
    <2>12. CASE Unusable
      BY <2>12, NothingFetched DEF Unusable, At, MatTypeOK, vars, inputVars, fileVars,
         fetchVars, usageVars, buildVars, Quits
    <2>13. ASSUME NEW bytes \in Bytes, FetchExternal(bytes) PROVE MatTypeOK'
      <3>1. request \in Requests /\ request.mod \in Projects
        BY <2>13, RequestKind DEF FetchExternal, At, MatTypeOK
      <3>2. CASE Quits
        BY <2>13, <3>2, Ended DEF FetchExternal, MatTypeOK, fileVars, usageVars
      <3>3. CASE Copies(bytes)
        <4>1. request' \in Requests BY <3>1, <3>3, NextCopy, Zenon DEF Copies
        <4>2. QED BY <2>13, <3>3, <4>1, OnlyRequest DEF FetchExternal, Copies
      <3>4. CASE Got(request.mod, bytes)
        <4>1. fetched' \in Hashes BY <3>4 DEF Got, MatTypeOK, Hashes
        <4>2. QED
          BY <2>13, <3>4, <4>1 DEF FetchExternal, Got, MatTypeOK, vars, fileVars, usageVars,
             buildVars
      <3>5. QED BY <2>13, <3>2, <3>3, <3>4 DEF FetchExternal, Store
    <2>14. CASE CopyJar
      <3>1. /\ request \in Requests /\ request.mod \in Projects /\ Got(request.mod, request.jar)
            /\ UNCHANGED <<vars, status, slip, usageVars, buildVars>>
            /\ warehouse' = [warehouse EXCEPT ![request.mod] = request.jar]
        BY <2>14, RequestKind DEF CopyJar, At, MatTypeOK
      <3>2. request.jar \in Bytes BY <2>14 DEF CopyJar, Stored
      <3>3. fetched' \in Hashes /\ warehouse' \in [Mods -> Bytes \cup {Torn, Absent}]
        BY <3>1, <3>2 DEF Got, MatTypeOK, Hashes
      <3>4. QED BY <3>1, <3>3 DEF Got, MatTypeOK, vars, usageVars, buildVars
    <2>15. CASE SidesUnresolved
      BY <2>15, NothingFetched DEF SidesUnresolved, Fetched, MatTypeOK, vars, inputVars,
         fileVars, fetchVars, usageVars, buildVars, Quits
    <2>16. CASE WriteMetadata
      BY <2>16 DEF WriteMetadata, Fetched, MatTypeOK, vars, inputVars, fileVars,
         fetchVars, usageVars, buildVars, Quits
    <2>17. CASE SlipRefused
      BY <2>17, NothingFetched DEF SlipRefused, MatTypeOK, vars, inputVars, fileVars,
         fetchVars, usageVars, buildVars, Quits
    <2>18. CASE SealSlip
      BY <2>18 DEF SealSlip, MatTypeOK, vars, inputVars, fileVars, fetchVars, usageVars,
         buildVars, Quits
    <2>19. CASE SaveState
      BY <2>19, NothingFetched DEF SaveState, MatTypeOK, vars, inputVars, fileVars,
         fetchVars, usageVars, buildVars, Quits
    <2>20. CASE Killed
      BY <2>20, NothingFetched DEF Killed, MatTypeOK, vars, inputVars, fileVars,
         fetchVars, usageVars, buildVars, Quits
    <2>21. ASSUME NEW m \in Mods, BuildCopies(m) PROVE MatTypeOK'
      BY <2>21 DEF BuildCopies, Bytes, MatTypeOK, vars, inputVars, fileVars, fetchVars,
         usageVars, buildVars, Quits
    <2>22. ASSUME NEW m \in Mods, BuildCopied(m) PROVE MatTypeOK'
      BY <2>22 DEF BuildCopied, Bytes, MatTypeOK, vars, inputVars, fileVars, fetchVars,
         usageVars, buildVars, Quits
    <2>23. ASSUME NEW k \in Kinds, OtherChecks(k) PROVE MatTypeOK'
      BY <2>23 DEF OtherChecks, Room, MatTypeOK, vars, inputVars, fileVars, fetchVars,
         usageVars, buildVars, Quits
    <2>24. CASE OtherCalls
      <3>1. other \in Kinds BY <2>24 DEF OtherCalls, MatTypeOK
      <3>2. PICK w \in Weights(other) :
              sent' = [sent EXCEPT ![other] = @ + w] /\ Recorded(other, w)
        BY <2>24 DEF OtherCalls
      <3>3. w \in Nat BY <3>1, <3>2, Weighed
      <3>4. used' \in [Kinds -> Nat] /\ torn' \in BOOLEAN
        BY <3>1, <3>2, <3>3, RecordedTyped
      <3> DEFINE n == sent[other] + w
      <3>5. n \in Nat BY <3>1, <3>3 DEF MatTypeOK
      <3>6. sent' = [sent EXCEPT ![other] = n] BY <3>2
      <3> HIDE DEF n
      <3>7. sent' \in [Kinds -> Nat] BY <3>1, <3>5, <3>6 DEF MatTypeOK
      <3>8. QED
        BY <2>24, <3>4, <3>7 DEF OtherCalls, MatTypeOK, vars, fileVars, fetchVars, buildVars
    <2>25. ASSUME NEW m \in Mods, OtherFindsNone(m) PROVE MatTypeOK'
      BY <2>25 DEF OtherFindsNone, MatTypeOK, vars, fileVars, fetchVars, usageVars
    <2>26. CASE OtherCopies
      BY <2>26 DEF OtherCopies, Bytes, Mods, MatTypeOK, vars, fetchVars, usageVars
    <2>27. CASE WindowPasses
      BY <2>27 DEF WindowPasses, MatTypeOK, vars, inputVars, fileVars, fetchVars,
         usageVars, buildVars, Quits
    <2>28. QED
      BY <1>1, <2>1, <2>2, <2>3, <2>4, <2>5, <2>6, <2>7, <2>8, <2>9, <2>10, <2>11, <2>12,
         <2>13, <2>14, <2>15, <2>16, <2>17, <2>18, <2>19, <2>20, <2>21, <2>22, <2>23,
         <2>24, <2>25, <2>26, <2>27
         DEF Materialize, Others
  <1>2. CASE UNCHANGED <<vars, matVars>>
    BY <1>2 DEF MatTypeOK, vars, inputVars, matVars, fileVars, fetchVars, usageVars, buildVars
  <1>3. QED BY <1>1, <1>2, UpdateMatTyped DEF MatNext

----------------------------------------------------------------------------
(* Materialize: the budget. *)

\* A step of the request: the others of its fields stay, or it is a further attempt.
LEMMA StepTaken ==
    ASSUME NEW r \in Requests, NEW step \in Steps
    PROVE  /\ [r EXCEPT !.step = step].step = step
           /\ [r EXCEPT !.step = step].stage = r.stage
           /\ [r EXCEPT !.step = step].mod = r.mod
  BY DEF Requests, Steps

LEMMA TryTaken ==
    ASSUME NEW r \in Requests
    PROVE  /\ [r EXCEPT !.step = "check", !.try = @ + 1].step = "check"
           /\ [r EXCEPT !.step = "check", !.try = @ + 1].mod = r.mod
  BY DEF Requests

\* No request is with a provider, or answered and not recorded.
NotOut == ~At("send") /\ \A answer \in Answers : ~At(answer)

LEMMA NobodyAsks == request = None \/ mat # "fetch" => NotOut
  BY DEF NotOut, At

LEMMA StepsApart ==
    ASSUME NEW step \in {"check", "answered", "hints"}, request # None => request.step = step
    PROVE  NotOut
  BY DEF NotOut, At, Answers

\* The shares of one kind of request, as numbers.
LEMMA Shares ==
    ASSUME MatTypeOK, NEW k \in Kinds
    PROVE  /\ Heaviest(k) \in Nat \ {0}
           /\ Sending(k) \in {0, Heaviest(k)} /\ OthersSend(k) \in {0, Heaviest(k)}
           /\ Unrecorded(k) \in Nat /\ (Sending(k) = 0 \/ Unrecorded(k) = 0)
           /\ Sending(k)' \in {0, Heaviest(k)} /\ OthersSend(k)' \in {0, Heaviest(k)}
           /\ Dangling(k) \in {0, Heaviest(k)} /\ Dangling(k)' \in {0, Heaviest(k)}
           /\ used[k] \in Nat /\ sent[k] \in Nat /\ Cap[k] \in Nat /\ Missed(k) \in Nat
  <1>1. Heaviest(k) \in Nat \ {0} BY Weighed
  <1>2. Unrecorded(k) \in Nat
    <2>1. CASE request = None
      BY <2>1 DEF Unrecorded, At
    <2>2. CASE request # None
      <3>1. request.weight \in Nat BY <2>2 DEF MatTypeOK, Requests
      <3>2. QED BY <3>1 DEF Unrecorded
    <2>3. QED BY <2>1, <2>2
  <1>3. Missed(k) \in Nat
    <2>1. 2 * lapses \in Nat BY DEF MatTypeOK
    <2>2. QED BY <1>1, <2>1 DEF Missed
  <1>4. Sending(k) = 0 \/ Unrecorded(k) = 0
    BY DEF Sending, Unrecorded, At, Answers
  <1>5. /\ Sending(k) \in {0, Heaviest(k)} /\ OthersSend(k) \in {0, Heaviest(k)}
        /\ Sending(k)' \in {0, Heaviest(k)} /\ OthersSend(k)' \in {0, Heaviest(k)}
        /\ Dangling(k) \in {0, Heaviest(k)} /\ Dangling(k)' \in {0, Heaviest(k)}
    BY DEF Sending, OthersSend, Dangling
  <1>6. QED BY <1>1, <1>2, <1>3, <1>4, <1>5, MaterializeAssumption DEF MatTypeOK

\* One more lapse, two more answers.
LEMMA LapseMisses ==
    ASSUME NEW l \in Nat, NEW w \in Nat
    PROVE  2 * (l + 1) * w = 2 * l * w + 2 * w
  OBVIOUS

\* Neither the log nor what will be recorded changes.
LEMMA AccountKept ==
    ASSUME MatTypeOK, Accounted, UNCHANGED usageVars,
           \/ UNCHANGED <<mat, request>>
           \/ NotOut' /\ \A answer \in Answers : ~At(answer)
    PROVE  Accounted'
  <1>1. \A k \in Kinds : /\ OthersSend(k)' = OthersSend(k)
                         /\ Dangling(k)' = Dangling(k) /\ Missed(k)' = Missed(k)
    BY DEF usageVars, OthersSend, Dangling, Missed
  <1>2. \A k \in Kinds : /\ Unrecorded(k)' = Unrecorded(k)
                         /\ Sending(k)' = Sending(k) \/ Sending(k)' = 0
    <2>1. CASE UNCHANGED <<mat, request>>
      BY <2>1 DEF Unrecorded, Sending, At, KindAsked
    <2>2. CASE NotOut' /\ \A answer \in Answers : ~At(answer)
      BY <2>2 DEF NotOut, Unrecorded, Sending
    <2>3. QED BY <2>1, <2>2
  <1>3. UNCHANGED <<used, sent, torn, lapses>> BY DEF usageVars
  <1>4. ASSUME NEW k \in Kinds
        PROVE  /\ Unrecorded(k)' <= Heaviest(k)
               /\ Cap[k] = 0 => Sending(k)' + Unrecorded(k)' + OthersSend(k)' = 0
               /\ used[k] + Sending(k)' + Unrecorded(k)' + OthersSend(k)'
                    < Cap[k] + 2 * Heaviest(k)
               /\ sent[k] + Dangling(k)' <= used[k] + Unrecorded(k)' + Missed(k)'
    BY <1>1, <1>2, Shares DEF Accounted
  <1>5. QED BY <1>3, <1>4 DEF Accounted

\* To give up is not to send.
LEMMA GivesUpQuiet ==
    ASSUME GivesUp, request \in Requests PROVE NotOut'
  <1>1. CASE request.stage = "project"
    <2>1. request' = [request EXCEPT !.step = "hints"] /\ "hints" \in Steps
      BY <1>1 DEF GivesUp, Steps
    <2>2. request'.step = "hints" BY <2>1, StepTaken, Zenon
    <2>3. QED BY <2>2 DEF NotOut, At, Answers
  <1>2. CASE request.stage # "project"
    BY <1>2 DEF GivesUp, Quits, NotOut, At
  <1>3. QED BY <1>1, <1>2

\* The request is found within the budget.
LEMMA CheckAccounted ==
    ASSUME MatTypeOK, Accounted, CheckCap PROVE Accounted'
  <1>1. /\ request \in Requests /\ "send" \in Steps /\ request # None
        /\ request' = [request EXCEPT !.step = "send"]
        /\ request.step = "check" /\ mat = "fetch" /\ mat' = mat
        /\ used[KindAsked] < Cap[KindAsked]
        /\ UNCHANGED <<used, torn, other, sent, lapses>>
    BY DEF CheckCap, At, Room, MatTypeOK, Steps, usageVars
  <1>2. request'.step = "send" /\ request'.stage = request.stage
    BY <1>1, StepTaken, Zenon
  <1>3. request \in Requests BY <1>1
  <1>4. KindAsked \in Kinds /\ KindAsked' = KindAsked
    BY <1>2, <1>3, RequestKind DEF KindAsked
  <1>5. ASSUME NEW k \in Kinds
        PROVE  /\ OthersSend(k)' = OthersSend(k) /\ Dangling(k)' = Dangling(k)
               /\ Missed(k)' = Missed(k)
               /\ Sending(k) = 0 /\ Unrecorded(k) = 0 /\ Unrecorded(k)' = 0
               /\ Sending(k)' # 0 => used[k] < Cap[k]
    BY <1>1, <1>2, <1>4 DEF OthersSend, Dangling, Missed, Sending, Unrecorded, At, Answers
  <1>6. ASSUME NEW k \in Kinds
        PROVE  /\ Unrecorded(k)' <= Heaviest(k)
               /\ Cap[k] = 0 => Sending(k)' + Unrecorded(k)' + OthersSend(k)' = 0
               /\ used[k] + Sending(k)' + Unrecorded(k)' + OthersSend(k)'
                    < Cap[k] + 2 * Heaviest(k)
               /\ sent[k] + Dangling(k)' <= used[k] + Unrecorded(k)' + Missed(k)'
    BY <1>5, Shares DEF Accounted
  <1>7. QED BY <1>1, <1>6 DEF Accounted

\* The provider answers.
LEMMA AnswerAccounted ==
    ASSUME MatTypeOK, Accounted, NEW answer \in Answers, Responds(answer) PROVE Accounted'
  <1>1. PICK w \in Weights(KindAsked) :
          /\ sent' = [sent EXCEPT ![KindAsked] = @ + w]
          /\ request' = [request EXCEPT !.step = answer, !.weight = w]
    BY DEF Responds
  <1>2. /\ request \in Requests /\ request # None
        /\ request.step = "send" /\ mat = "fetch" /\ mat' = mat
        /\ UNCHANGED <<used, torn, other, lapses>>
    BY DEF Responds, At, MatTypeOK
  <1>3. KindAsked \in Kinds
    <2>1. request \in Requests BY <1>2
    <2>2. QED BY <2>1, RequestKind DEF KindAsked
  <1>4. w \in Nat /\ w <= Heaviest(KindAsked) BY <1>1, <1>3, Weighed
  <1>5. /\ request' \in Requests /\ request'.step = answer /\ request'.stage = request.stage
        /\ request'.weight = w
    <2>1. w \in Nat /\ request \in Requests BY <1>2, <1>4
    <2>2. request' = [request EXCEPT !.step = answer, !.weight = w] BY <1>1
    <2>3. request' \in Requests BY <2>1, <2>2, NextAnswer, Zenon
    <2>4. request'.step = answer BY <2>1, <2>2, NextAnswer, Zenon
    <2>5. request'.stage = request.stage BY <2>1, <2>2 DEF Requests
    <2>6. request'.weight = w BY <2>1, <2>2 DEF Requests
    <2>7. QED BY <2>3, <2>4, <2>5, <2>6
  <1>6. request' # None BY <1>5, MaterializeAssumption
  <1>7. KindAsked' = KindAsked BY <1>5 DEF KindAsked
  <1>8. ASSUME NEW k \in Kinds
        PROVE  /\ OthersSend(k)' = OthersSend(k) /\ Dangling(k)' = Dangling(k)
               /\ Missed(k)' = Missed(k)
               /\ Unrecorded(k) = 0 /\ Sending(k)' = 0
               /\ k # KindAsked => /\ Unrecorded(k)' = 0 /\ sent'[k] = sent[k]
                                   /\ Sending(k) = 0
               /\ k = KindAsked => /\ Unrecorded(k)' = w /\ sent'[k] = sent[k] + w
                                   /\ Sending(k) = Heaviest(k)
    <2>1. /\ OthersSend(k)' = OthersSend(k) /\ Dangling(k)' = Dangling(k)
          /\ Missed(k)' = Missed(k)
      BY <1>2 DEF OthersSend, Dangling, Missed
    <2>2. Unrecorded(k) = 0 /\ Sending(k)' = 0
      BY <1>2, <1>5 DEF Sending, Unrecorded, At, Answers
    <2>3. At("send") /\ At(answer)'
      BY <1>2, <1>5, <1>6 DEF At
    <2>4. /\ Unrecorded(k)' = (IF k = KindAsked THEN w ELSE 0)
          /\ Sending(k) = (IF k = KindAsked THEN Heaviest(k) ELSE 0)
      BY <1>5, <1>7, <2>3 DEF Sending, Unrecorded
    <2>5. sent \in [Kinds -> Nat] BY DEF MatTypeOK
    <2>6. sent'[k] = IF k = KindAsked THEN sent[k] + w ELSE sent[k]
      BY <1>1, <1>3, <2>5
    <2>7. QED BY <2>1, <2>2, <2>4, <2>6
  <1>9. ASSUME NEW k \in Kinds
        PROVE  /\ Unrecorded(k)' <= Heaviest(k)
               /\ Cap[k] = 0 => Sending(k)' + Unrecorded(k)' + OthersSend(k)' = 0
               /\ used[k] + Sending(k)' + Unrecorded(k)' + OthersSend(k)'
                    < Cap[k] + 2 * Heaviest(k)
               /\ sent'[k] + Dangling(k)' <= used[k] + Unrecorded(k)' + Missed(k)'
    <2>1. CASE k = KindAsked
      BY <1>4, <1>8, <2>1, Shares DEF Accounted
    <2>2. CASE k # KindAsked
      BY <1>8, <2>2, Shares DEF Accounted
    <2>3. QED BY <2>1, <2>2
  <1>10. QED BY <1>2, <1>9 DEF Accounted

\* A record counts, or completes a line that was cut off.
LEMMA RecordCounts ==
    ASSUME MatTypeOK, NEW k \in Kinds, NEW w \in Nat, Recorded(k, w)
    PROVE  /\ torn' = FALSE
           /\ \A j \in Kinds : j # k => used'[j] = used[j]
           /\ used'[k] = IF torn THEN used[k] ELSE used[k] + w
  <1>1. used \in [Kinds -> Nat] BY DEF MatTypeOK
  <1>2. torn' = FALSE BY DEF Recorded
  <1>3. CASE torn
    BY <1>1, <1>2, <1>3 DEF Recorded
  <1>4. CASE ~torn
    <2> DEFINE n == used[k] + w
    <2>1. used' = [used EXCEPT ![k] = n] BY <1>4 DEF Recorded
    <2> HIDE DEF n
    <2>2. /\ \A j \in Kinds : j # k => used'[j] = used[j]
          /\ used'[k] = n
      BY <1>1, <2>1
    <2>3. QED BY <1>2, <1>4, <2>2 DEF n
  <1>5. QED BY <1>3, <1>4

\* What a record does to the account of a kind: the answer that was not recorded, or the
\* other command's, is counted, or lost with the line that was cut off.
Shared(k, w) ==
    /\ used'[k] \in Nat
    /\ torn => used'[k] = used[k] /\ Dangling(k) = Heaviest(k)
    /\ ~torn => used'[k] = used[k] + w /\ Dangling(k) = 0
    /\ w \in Nat /\ w <= Heaviest(k)
    /\ Missed(k)' = Missed(k) /\ Dangling(k)' = 0

LEMMA RecordShared ==
    ASSUME MatTypeOK, NEW k \in Kinds, NEW w \in Nat, w <= Heaviest(k), Recorded(k, w),
           UNCHANGED lapses
    PROVE  /\ Shared(k, w)
           /\ \A j \in Kinds : j # k => Shared(j, 0)
  <1>1. used' \in [Kinds -> Nat] BY RecordedTyped
  <1>2. \A j \in Kinds : Heaviest(j) \in Nat BY Weighed
  <1>3. \A j \in Kinds : used[j] \in Nat BY DEF MatTypeOK
  <1>4. /\ torn' = FALSE
        /\ \A j \in Kinds : j # k => used'[j] = used[j]
        /\ used'[k] = IF torn THEN used[k] ELSE used[k] + w
    BY RecordCounts
  <1>5. \A j \in Kinds : /\ Missed(j)' = Missed(j) /\ Dangling(j)' = 0
                         /\ Dangling(j) = IF torn THEN Heaviest(j) ELSE 0
    BY <1>4 DEF Missed, Dangling
  <1>6. QED BY <1>1, <1>2, <1>3, <1>4, <1>5 DEF Shared

\* The call is recorded.
LEMMA RecordAccounted ==
    ASSUME MatTypeOK, Accounted, NEW answer \in Answers, RecordCall(answer) PROVE Accounted'
  <1>1. /\ request \in Requests /\ request # None /\ mat = "fetch"
        /\ request.step = answer /\ Recorded(KindAsked, request.weight)
        /\ UNCHANGED <<other, sent, lapses>>
    BY DEF RecordCall, At, MatTypeOK
  <1>2. KindAsked \in Kinds
    <2>1. request \in Requests BY <1>1
    <2>2. QED BY <2>1, RequestKind DEF KindAsked
  <1>3. NotOut'
    <2>1. CASE answer = "busy" /\ request.try < MaxRetries
      <3>1. request' = [request EXCEPT !.step = "check", !.try = @ + 1]
        BY <2>1 DEF RecordCall, Again
      <3>2. request'.step = "check" BY <1>1, <3>1, TryTaken, Zenon
      <3>3. QED BY <3>2 DEF NotOut, At, Answers
    <2>2. CASE ~(answer = "busy" /\ request.try < MaxRetries) /\ answer = "ok"
      <3>1. request' = [request EXCEPT !.step = "answered"] /\ "answered" \in Steps
        BY <2>2 DEF RecordCall, Steps
      <3>2. request'.step = "answered" BY <1>1, <3>1, StepTaken, Zenon
      <3>3. QED BY <3>2 DEF NotOut, At, Answers
    <2>3. CASE GivesUp
      BY <1>1, <2>3, GivesUpQuiet
    <2>4. QED BY <2>1, <2>2, <2>3 DEF RecordCall
  <1>4. PICK w \in Nat : w = request.weight
    <2>1. request.weight \in Nat BY <1>1 DEF Requests
    <2>2. QED BY <2>1
  <1>5. ASSUME NEW k \in Kinds
        PROVE  /\ OthersSend(k)' = OthersSend(k)
               /\ Sending(k)' = 0 /\ Unrecorded(k)' = 0 /\ Sending(k) = 0
               /\ Unrecorded(k) = IF k = KindAsked THEN w ELSE 0
    BY <1>1, <1>3, <1>4 DEF OthersSend, Sending, Unrecorded, At, NotOut, Answers
  <1>6. Recorded(KindAsked, w) /\ w <= Heaviest(KindAsked)
    BY <1>1, <1>2, <1>4, <1>5 DEF Accounted
  <1>7. ASSUME NEW k \in Kinds
        PROVE  Shared(k, Unrecorded(k))
    BY <1>1, <1>2, <1>5, <1>6, RecordShared
  <1>8. ASSUME NEW k \in Kinds
        PROVE  /\ Unrecorded(k)' <= Heaviest(k)
               /\ Cap[k] = 0 => Sending(k)' + Unrecorded(k)' + OthersSend(k)' = 0
               /\ used'[k] + Sending(k)' + Unrecorded(k)' + OthersSend(k)'
                    < Cap[k] + 2 * Heaviest(k)
               /\ sent[k] + Dangling(k)' <= used'[k] + Unrecorded(k)' + Missed(k)'
    BY <1>5, <1>7, Shares DEF Accounted, Shared
  <1>9. torn' = FALSE BY <1>2, <1>6, RecordCounts
  <1>10. QED BY <1>1, <1>8, <1>9 DEF Accounted

\* The record is lost.
LEMMA LossAccounted ==
    ASSUME MatTypeOK, Accounted, NEW answer \in Answers, RecordLost(answer) PROVE Accounted'
  <1>1. /\ request # None /\ mat = "fetch" /\ request.step = answer
        /\ request' = None /\ lapses' = lapses + 1 /\ torn' \in {torn, TRUE}
        /\ UNCHANGED <<used, other, sent>>
    BY DEF RecordLost, At, Quits
  <1>2. ASSUME NEW k \in Kinds
        PROVE  /\ OthersSend(k)' = OthersSend(k)
               /\ Sending(k)' = 0 /\ Unrecorded(k)' = 0 /\ Sending(k) = 0
    BY <1>1 DEF OthersSend, Sending, Unrecorded, At, Answers
  <1>3. ASSUME NEW k \in Kinds
        PROVE  Missed(k)' = Missed(k) + 2 * Heaviest(k)
    <2>1. lapses \in Nat /\ Heaviest(k) \in Nat BY Weighed DEF MatTypeOK
    <2>2. 2 * (lapses + 1) * Heaviest(k) = 2 * lapses * Heaviest(k) + 2 * Heaviest(k)
      BY <2>1, LapseMisses
    <2>3. QED BY <1>1, <2>2 DEF Missed
  <1>4. ASSUME NEW k \in Kinds
        PROVE  /\ Unrecorded(k)' <= Heaviest(k)
               /\ Cap[k] = 0 => Sending(k)' + Unrecorded(k)' + OthersSend(k)' = 0
               /\ used[k] + Sending(k)' + Unrecorded(k)' + OthersSend(k)'
                    < Cap[k] + 2 * Heaviest(k)
               /\ sent[k] + Dangling(k)' <= used[k] + Unrecorded(k)' + Missed(k)'
    BY <1>2, <1>3, Shares DEF Accounted
  <1>5. lapses' >= 1 BY <1>1 DEF MatTypeOK
  <1>6. QED BY <1>1, <1>4, <1>5 DEF Accounted

\* Another command looks at the budget, and calls.
LEMMA OtherCheckAccounted ==
    ASSUME MatTypeOK, Accounted, NEW k \in Kinds, OtherChecks(k) PROVE Accounted'
  <1>1. /\ other = None /\ other' = k /\ used[k] < Cap[k]
        /\ UNCHANGED <<mat, request, used, torn, sent, lapses>>
    BY DEF OtherChecks, Room, fetchVars
  <1>2. ASSUME NEW j \in Kinds
        PROVE  /\ Sending(j)' = Sending(j) /\ Unrecorded(j)' = Unrecorded(j)
               /\ Dangling(j)' = Dangling(j) /\ Missed(j)' = Missed(j)
               /\ OthersSend(j) = 0 /\ (OthersSend(j)' # 0 => used[j] < Cap[j])
    BY <1>1 DEF Sending, Unrecorded, Dangling, Missed, At, KindAsked, OthersSend
  <1>3. ASSUME NEW j \in Kinds
        PROVE  /\ Unrecorded(j)' <= Heaviest(j)
               /\ Cap[j] = 0 => Sending(j)' + Unrecorded(j)' + OthersSend(j)' = 0
               /\ used[j] + Sending(j)' + Unrecorded(j)' + OthersSend(j)'
                    < Cap[j] + 2 * Heaviest(j)
               /\ sent[j] + Dangling(j)' <= used[j] + Unrecorded(j)' + Missed(j)'
    BY <1>2, Shares DEF Accounted
  <1>4. QED BY <1>1, <1>3 DEF Accounted

LEMMA OtherCallAccounted ==
    ASSUME MatTypeOK, Accounted, OtherCalls PROVE Accounted'
  <1>1. /\ other # None /\ other' = None /\ other \in Kinds
        /\ UNCHANGED <<mat, request, lapses>>
    BY DEF OtherCalls, fetchVars, MatTypeOK
  <1>2. PICK w \in Weights(other) : sent' = [sent EXCEPT ![other] = @ + w] /\ Recorded(other, w)
    BY DEF OtherCalls
  <1>3. w \in Nat /\ w <= Heaviest(other) BY <1>1, <1>2, Weighed
  <1>4. ASSUME NEW k \in Kinds
        PROVE  /\ Sending(k)' = Sending(k) /\ Unrecorded(k)' = Unrecorded(k)
               /\ OthersSend(k)' = 0
               /\ OthersSend(k) = IF k = other THEN Heaviest(k) ELSE 0
    BY <1>1 DEF Sending, Unrecorded, At, KindAsked, OthersSend
  <1>5. PICK o \in Kinds : o = other BY <1>1
  <1>6. Shared(o, w) /\ \A j \in Kinds : j # o => Shared(j, 0)
    BY <1>1, <1>2, <1>3, <1>5, RecordShared
  <1>7. ASSUME NEW k \in Kinds
        PROVE  sent'[k] = IF k = o THEN sent[k] + w ELSE sent[k]
    <2>1. sent \in [Kinds -> Nat] BY DEF MatTypeOK
    <2>2. QED BY <1>2, <1>5, <2>1
  <1>8. ASSUME NEW k \in Kinds
        PROVE  /\ Unrecorded(k)' <= Heaviest(k)
               /\ Cap[k] = 0 => Sending(k)' + Unrecorded(k)' + OthersSend(k)' = 0
               /\ used'[k] + Sending(k)' + Unrecorded(k)' + OthersSend(k)'
                    < Cap[k] + 2 * Heaviest(k)
               /\ sent'[k] + Dangling(k)' <= used'[k] + Unrecorded(k)' + Missed(k)'
    <2>1. CASE k = o
      <3>1. Shared(k, w) /\ sent'[k] = sent[k] + w /\ OthersSend(k) = Heaviest(k)
        BY <1>4, <1>5, <1>6, <1>7, <2>1
      <3>2. QED BY <1>4, <3>1, Shares DEF Accounted, Shared
    <2>2. CASE k # o
      <3>1. Shared(k, 0) /\ sent'[k] = sent[k] /\ OthersSend(k) = 0
        BY <1>4, <1>5, <1>6, <1>7, <2>2
      <3>2. QED BY <1>4, <3>1, Shares DEF Accounted, Shared
    <2>3. QED BY <2>1, <2>2
  <1>9. torn' = FALSE BY <1>1, <1>2, <1>3, RecordCounts
  <1>10. QED BY <1>1, <1>8, <1>9 DEF Accounted

\* A new window begins with what is under way.
LEMMA WindowAccounted ==
    ASSUME MatTypeOK, Accounted, WindowPasses PROVE Accounted'
  <1>1. /\ used' = [k \in Kinds |-> 0] /\ sent' = [k \in Kinds |-> 0]
        /\ UNCHANGED <<mat, request, torn, other, lapses>>
    BY DEF WindowPasses, fetchVars
  <1>2. ASSUME NEW k \in Kinds
        PROVE  /\ Sending(k)' = Sending(k) /\ Unrecorded(k)' = Unrecorded(k)
               /\ Dangling(k)' = Dangling(k) /\ Missed(k)' = Missed(k)
               /\ OthersSend(k)' = OthersSend(k) /\ used'[k] = 0 /\ sent'[k] = 0
    BY <1>1 DEF Sending, Unrecorded, Dangling, Missed, At, KindAsked, OthersSend
  <1>3. ASSUME NEW k \in Kinds
        PROVE  /\ Unrecorded(k)' <= Heaviest(k)
               /\ Cap[k] = 0 => Sending(k)' + Unrecorded(k)' + OthersSend(k)' = 0
               /\ used'[k] + Sending(k)' + Unrecorded(k)' + OthersSend(k)'
                    < Cap[k] + 2 * Heaviest(k)
               /\ sent'[k] + Dangling(k)' <= used'[k] + Unrecorded(k)' + Missed(k)'
    <2>1. torn => Heaviest(k) <= Missed(k)
      <3>1. ASSUME torn PROVE Heaviest(k) <= Missed(k)
        <4>1. PICK l \in Nat : lapses = l + 1
          <5>1. lapses \in Nat /\ lapses >= 1 BY <3>1 DEF MatTypeOK, Accounted
          <5>2. lapses - 1 \in Nat /\ lapses = (lapses - 1) + 1 BY <5>1
          <5>3. QED BY <5>2
        <4>2. PICK w \in Nat : w = Heaviest(k) BY Weighed
        <4>3. Missed(k) = 2 * l * w + 2 * w BY <4>1, <4>2, LapseMisses DEF Missed
        <4>4. 2 * l * w \in Nat
          <5>1. 2 * l \in Nat OBVIOUS
          <5>2. QED BY <5>1
        <4>5. QED BY <4>2, <4>3, <4>4
      <3>2. QED BY <3>1
    <2>2. Dangling(k) <= Missed(k)
      BY <2>1, Shares DEF Dangling
    <2>3. QED BY <1>2, <2>2, Shares DEF Accounted
  <1>4. QED BY <1>1, <1>3 DEF Accounted

LEMMA InitAccounted == MatInit => Accounted
  <1> SUFFICES ASSUME MatInit PROVE Accounted
    OBVIOUS
  <1>1. \A k \in Kinds : used[k] = 0 /\ sent[k] = 0 /\ Cap[k] \in Nat
    BY MaterializeAssumption DEF MatInit
  <1>2. \A k \in Kinds : /\ Sending(k) = 0 /\ Unrecorded(k) = 0 /\ OthersSend(k) = 0
                         /\ Dangling(k) = 0
    BY DEF MatInit, Sending, Unrecorded, OthersSend, Dangling, At
  <1>3. torn = FALSE /\ lapses = 0 BY DEF MatInit
  <1>4. \A k \in Kinds : Heaviest(k) \in Nat \ {0} /\ Missed(k) = 0
    BY <1>3, Weighed DEF Missed
  <1>5. QED BY <1>1, <1>2, <1>3, <1>4 DEF Accounted

\* Every step keeps the account: those that neither ask nor record leave it alone.
LEMMA NextAccounted ==
    ASSUME MatTypeOK, Accounted, Stored, [MatNext]_<<vars, matVars>> PROVE Accounted'
  <1> DEFINE Still == UNCHANGED <<mat, request, usageVars>>
             Hushed == /\ UNCHANGED usageVars /\ NotOut'
                       /\ \A answer \in Answers : ~At(answer)
  <1>1. CASE Still
    BY <1>1, AccountKept
  <1>2. CASE Hushed
    BY <1>2, AccountKept
  <1> HIDE DEF Still, Hushed
  <1>3. Resolve \/ UNCHANGED <<vars, matVars>> => Still
    BY DEF Resolve, matVars, fetchVars, Still
  <1>4. CASE UpdateEnds \/ Begin
    BY <1>4, NobodyAsks, <1>2
       DEF UpdateEnds, Begin, Stored, NotOut, At, Hushed, usageVars, fetchVars
  <1>5. ASSUME NEW m \in Mods, VerifyInHouse(m) PROVE Accounted'
    BY <1>5, <1>2 DEF VerifyInHouse, Fetching, Got, Quits, NotOut, At, Hushed
  <1>6. ASSUME NEW m \in Mods, Query(m) PROVE Accounted'
    BY <1>6, <1>2 DEF Query, Fetching, Request, NotOut, At, Answers, Hushed
  <1>7. CASE CheckCap BY <1>7, CheckAccounted
  <1>8. CASE NoBudget
    BY <1>8, <1>2 DEF NoBudget, Quits, NotOut, At, Answers, Hushed
  <1>9. CASE NetworkError
    <2>1. request \in Requests BY <1>9 DEF NetworkError, At, MatTypeOK
    <2>2. NotOut'
      <3>1. CASE request.try < MaxRetries
        <4>1. request' = [request EXCEPT !.step = "check", !.try = @ + 1]
          BY <1>9, <3>1 DEF NetworkError, Again
        <4>2. request'.step = "check" BY <2>1, <4>1, TryTaken, Zenon
        <4>3. QED BY <4>2 DEF NotOut, At, Answers
      <3>2. CASE ~(request.try < MaxRetries)
        BY <1>9, <2>1, <3>2, GivesUpQuiet DEF NetworkError
      <3>3. QED BY <3>1, <3>2
    <2>3. UNCHANGED usageVars /\ \A answer \in Answers : ~At(answer)
      BY <1>9 DEF NetworkError, At, Answers
    <2>4. QED BY <1>2, <2>2, <2>3 DEF Hushed
  <1>10. ASSUME NEW answer \in Answers, Responds(answer) PROVE Accounted'
    BY <1>10, AnswerAccounted
  <1>11. ASSUME NEW answer \in Answers, RecordCall(answer) PROVE Accounted'
    BY <1>11, RecordAccounted
  <1>12. ASSUME NEW answer \in Answers, RecordLost(answer) PROVE Accounted'
    BY <1>12, LossAccounted
  <1>13. ASSUME NEW next \in {"versions", "project", "artifact"}, VersionsAnswered(next)
         PROVE  Accounted'
    BY <1>13, <1>2 DEF VersionsAnswered, Request, NotOut, At, Answers, Hushed
  <1>14. CASE ProjectAnswered
    BY <1>14, <1>2 DEF ProjectAnswered, Request, NotOut, At, Answers, Hushed
  <1>15. CASE Unusable
    BY <1>15, <1>2 DEF Unusable, Quits, NotOut, At, Answers, Hushed
  <1>16. ASSUME NEW bytes \in Bytes, FetchExternal(bytes) PROVE Accounted'
    <2>1. /\ UNCHANGED usageVars /\ request \in Requests
          /\ \A answer \in Answers : ~At(answer)
      BY <1>16 DEF FetchExternal, At, Answers, MatTypeOK
    <2>2. NotOut'
      <3>1. CASE Copies(bytes)
        <4>1. request'.step = "copy" BY <2>1, <3>1, NextCopy, Zenon DEF Copies
        <4>2. QED BY <4>1 DEF NotOut, At, Answers
      <3>2. CASE Quits \/ Got(request.mod, bytes)
        BY <3>2 DEF Quits, Got, NotOut, At
      <3>3. QED BY <1>16, <3>1, <3>2 DEF FetchExternal, Store
    <2>3. QED BY <1>2, <2>1, <2>2 DEF Hushed
  <1>17. CASE SidesUnresolved \/ WriteMetadata
    BY <1>17, <1>2
       DEF SidesUnresolved, WriteMetadata, Fetched, Stored, Quits, NotOut, At, Answers, Hushed
  <1>18. CASE SlipRefused \/ SealSlip \/ SaveState
    BY <1>18, <1>2
       DEF SlipRefused, SealSlip, SaveState, Quits, NotOut, At, Answers, Hushed
  <1>19. CASE Killed
    BY <1>19, <1>2 DEF Killed, Quits, NotOut, At, Hushed
  <1>20. ASSUME NEW m \in Mods, BuildCopies(m) \/ BuildCopied(m) \/ OtherFindsNone(m)
         PROVE  Accounted'
    BY <1>20, <1>1 DEF BuildCopies, BuildCopied, OtherFindsNone, fetchVars, Still
  <1>21. ASSUME NEW k \in Kinds, OtherChecks(k) PROVE Accounted'
    BY <1>21, OtherCheckAccounted
  <1>22. CASE OtherCalls BY <1>22, OtherCallAccounted
  <1>23. CASE WindowPasses BY <1>23, WindowAccounted
  <1>24. CASE CopyJar
    BY <1>24, <1>2 DEF CopyJar, Got, NotOut, At, Answers, Hushed
  <1>25. CASE OtherCopies
    BY <1>25, <1>1 DEF OtherCopies, fetchVars, Still
  <1>26. QED
    BY <1>1, <1>3, <1>4, <1>5, <1>6, <1>7, <1>8, <1>9, <1>10, <1>11, <1>12, <1>13, <1>14,
       <1>15, <1>16, <1>17, <1>18, <1>19, <1>20, <1>21, <1>22, <1>23, <1>24, <1>25
       DEF MatNext, Materialize, Others

----------------------------------------------------------------------------
(* Materialize: the slip and the warehouse. *)

LEMMA InitStored == MatInit => Stored
  <1> SUFFICES ASSUME MatInit PROVE Stored
    OBVIOUS
  <1>1. \A m \in Mods : warehouse[m] # Torn
    BY MaterializeAssumption DEF MatInit, Bytes
  <1>2. \A m \in Mods : fetched[m] = None BY DEF MatInit
  <1>3. ~At("copy") BY DEF MatInit, At
  <1>4. QED BY <1>1, <1>2, <1>3, MaterializeAssumption DEF MatInit, Stored

\* Steps that leave the jars and the slip alone: the command goes on asking, or ends.
LEMMA StoredAsking ==
    ASSUME Stored, mat = "fetch", request' # None => request'.mod \in todo,
           At("copy")' => slip = None /\ request'.jar \in Bytes,
           UNCHANGED <<report, mat, fileVars, todo, fetched, overwritten>>
    PROVE  Stored'
  BY DEF Stored, Lists, Shipped, fileVars

LEMMA StoredQuits ==
    ASSUME Stored, mat # "update", Quits, UNCHANGED <<report, fileVars, overwritten>>
    PROVE  Stored'
  BY DEF Stored, Lists, Shipped, fileVars, Quits, At

\* What a jar that a list names has in the warehouse.
LEMMA ListedThere ==
    ASSUME MatTypeOK, Stored, NEW m \in Shipped, m \in Mods, slip # None
    PROVE  warehouse[m] # Absent
  <1>1. Lists(slip, Shipped) /\ slip[m] \in Bytes \cup {None}
    BY DEF Stored, MatTypeOK, Hashes
  <1>2. slip[m] \in Bytes /\ (m \in overwritten \/ slip[m] = warehouse[m])
    BY <1>1 DEF Lists
  <1>3. QED BY <1>2, MaterializeAssumption DEF Stored

\* A jar has been got: the warehouse has it with the hash that was fetched, and had it
\* before or is not on the slip.
LEMMA StoredGot ==
    ASSUME MatTypeOK, Stored, mat = "fetch", NEW m \in Mods, m \in todo, NEW bytes \in Bytes,
           Got(m, bytes), m \in Files => bytes = Right,
           warehouse' = [warehouse EXCEPT ![m] = bytes],
           warehouse[m] = bytes \/ slip = None,
           \/ overwritten' = overwritten
           \/ overwritten' = overwritten \ {m} /\ m \in Files,
           UNCHANGED <<report, status, slip>>
    PROVE  Stored'
  <1>1. /\ warehouse' \in [Mods -> Bytes \cup {Torn, Absent}] /\ warehouse'[m] = bytes
        /\ \A j \in Mods : j # m => warehouse'[j] = warehouse[j]
    BY DEF MatTypeOK
  <1>2. /\ fetched'[m] = bytes /\ \A j \in Mods : j # m => fetched'[j] = fetched[j]
    BY DEF MatTypeOK, Hashes, Got
  <1>3. /\ todo' = todo \ {m} /\ request' = None /\ mat' = mat
        /\ \A j \in Mods : j # m => (j \in overwritten' <=> j \in overwritten)
    BY DEF Got
  <1>4. bytes # None /\ bytes # Torn /\ bytes # Absent BY MaterializeAssumption
  <1>5. m \in Shipped /\ Shipped' = Shipped BY DEF Stored, Shipped
  <1>6. Lists(fetched, Shipped \ todo)'
    <2>1. \A j \in Mods : j \in Shipped \ todo' <=> j = m \/ j \in Shipped \ todo
      BY <1>3, <1>5
    <2>2. Lists(fetched, Shipped \ todo) BY DEF Stored
    <2>3. QED BY <1>1, <1>2, <1>3, <1>4, <1>5, <2>1, <2>2 DEF Lists
  <1>7. slip # None => Lists(slip, Shipped)'
    <2> SUFFICES ASSUME slip # None PROVE Lists(slip, Shipped)'
      OBVIOUS
    <2>1. Lists(slip, Shipped) /\ warehouse[m] = bytes BY DEF Stored
    <2>2. m \in overwritten' \/ slip[m] = bytes
      <3>1. CASE m \in Files /\ bytes = Right BY <1>5, <2>1, <3>1 DEF Lists
      <3>2. CASE m \notin Files BY <1>5, <2>1, <3>2 DEF Lists
      <3>3. QED BY <3>1, <3>2
    <2>3. QED BY <1>1, <1>3, <1>5, <2>1, <2>2 DEF Lists
  <1>8. \A j \in Mods : /\ warehouse'[j] = Torn => j \in overwritten'
                        /\ warehouse'[j] = Absent => j \notin overwritten'
    BY <1>1, <1>3, <1>4 DEF Stored
  <1>9. QED BY <1>3, <1>5, <1>6, <1>7, <1>8 DEF Stored, At

LEMMA VerifyStored ==
    ASSUME MatTypeOK, Stored, NEW m \in Mods, VerifyInHouse(m) PROVE Stored'
  <1>1. mat = "fetch" /\ m \in todo /\ m \in Files /\ UNCHANGED <<vars, fileVars>>
    BY DEF VerifyInHouse, Fetching
  <1>2. CASE warehouse[m] = Right
    <2>1. Got(m, Right) /\ overwritten' = overwritten \ {m} BY <1>2 DEF VerifyInHouse
    <2>2. warehouse' = [warehouse EXCEPT ![m] = Right]
      BY <1>1, <1>2 DEF MatTypeOK, fileVars
    <2>3. Right \in Bytes BY DEF Bytes
    <2>4. UNCHANGED <<report, status, slip>> BY <1>1 DEF vars, endVars, fileVars
    <2>5. QED BY <1>1, <1>2, <2>1, <2>2, <2>3, <2>4, StoredGot
  <1>3. CASE warehouse[m] # Right
    BY <1>1, <1>3, StoredQuits DEF VerifyInHouse, vars, endVars
  <1>4. QED BY <1>2, <1>3

LEMMA FetchStored ==
    ASSUME MatTypeOK, Stored, NEW bytes \in Bytes, FetchExternal(bytes) PROVE Stored'
  <1>1. /\ mat = "fetch" /\ request # None
        /\ UNCHANGED <<report, fileVars, status, warehouse, slip, overwritten>>
    BY DEF FetchExternal, At, vars, endVars, fileVars, buildVars
  <1>2. /\ request \in Requests /\ request.mod \in Projects /\ request.mod \in todo
        /\ request.mod \notin Files
    <2>1. request \in Requests BY <1>1 DEF MatTypeOK
    <2>2. request.mod \in Projects BY <2>1, RequestKind
    <2>3. QED BY <1>1, <2>1, <2>2, ResolverAssumption DEF Stored
  <1>3. request.mod \in Mods BY <1>2 DEF Mods
  <1>4. CASE Quits
    BY <1>1, <1>4, StoredQuits
  <1>5. CASE warehouse[request.mod] = Absent /\ Copies(bytes)
    <2>1. request'.mod = request.mod /\ request'.jar = bytes
      BY <1>2, <1>5, NextCopy, Zenon DEF Copies
    <2>2. request.mod \in Shipped BY <1>1, <1>2 DEF Stored
    <2>3. slip = None BY <1>3, <1>5, <2>2, ListedThere
    <2>4. QED BY <1>1, <1>2, <1>5, <2>1, <2>3, StoredAsking DEF Copies
  <1>6. CASE warehouse[request.mod] = bytes /\ Got(request.mod, bytes)
    <2>1. warehouse' = [warehouse EXCEPT ![request.mod] = bytes]
      BY <1>1, <1>3, <1>6 DEF MatTypeOK
    <2>2. QED BY <1>1, <1>2, <1>3, <1>6, <2>1, StoredGot
  <1>7. QED BY <1>4, <1>5, <1>6 DEF FetchExternal, Store

LEMMA CopyStored ==
    ASSUME MatTypeOK, Stored, CopyJar PROVE Stored'
  <1>1. /\ mat = "fetch" /\ request # None
        /\ warehouse' = [warehouse EXCEPT ![request.mod] = request.jar]
        /\ Got(request.mod, request.jar)
        /\ UNCHANGED <<report, status, slip, overwritten>>
    BY DEF CopyJar, At, vars, endVars, buildVars
  <1>2. slip = None /\ request.jar \in Bytes BY DEF CopyJar, Stored
  <1>3. /\ request.mod \in Mods /\ request.mod \in todo /\ request.mod \notin Files
    <2>1. request \in Requests BY <1>1 DEF MatTypeOK
    <2>2. request.mod \in Projects BY <2>1, RequestKind
    <2>3. QED BY <1>1, <2>2, ResolverAssumption DEF Stored, Mods
  <1>4. QED BY <1>1, <1>2, <1>3, StoredGot

\* Another process writes a jar: over one that it counts as overwritten, the same bytes,
\* or where there was none.
LEMMA OverwriteStored ==
    ASSUME MatTypeOK, Stored, mat # "update", NEW m \in Mods,
           UNCHANGED <<report, mat, status, slip, todo, fetched, request>>,
           warehouse' \in [Mods -> Bytes \cup {Torn, Absent}],
           warehouse'[m] # Absent, warehouse'[m] = Torn => m \in overwritten',
           m \in overwritten' \/ warehouse'[m] = warehouse[m] \/ warehouse[m] = Absent,
           overwritten \subseteq overwritten',
           \A j \in Mods \ {m} : /\ warehouse'[j] = warehouse[j]
                                 /\ j \in overwritten' => j \in overwritten
    PROVE  Stored'
  <1>1. ASSUME NEW hashes \in Hashes, NEW jars, Lists(hashes, jars)
        PROVE  \A j \in Mods :
                 IF j \in jars
                 THEN /\ hashes[j] # None
                      /\ j \in overwritten' \/ hashes[j] = warehouse'[j]
                      /\ j \in Files => hashes[j] = Right
                 ELSE hashes[j] = None
    <2>1. m \in jars => m \in overwritten' \/ hashes[m] = warehouse'[m]
      <3>1. CASE warehouse[m] = Absent /\ m \in jars
        <4>1. m \notin overwritten BY <3>1 DEF Stored
        <4>2. hashes[m] = Absent /\ hashes[m] \in Bytes
          BY <1>1, <3>1, <4>1 DEF Lists, Hashes
        <4>3. QED BY <4>2, MaterializeAssumption
      <3>2. CASE warehouse'[m] = warehouse[m] /\ m \in jars
        BY <1>1, <3>2 DEF Lists
      <3>3. QED BY <3>1, <3>2
    <2>2. QED BY <1>1, <2>1 DEF Lists
  <1>2. \A j \in Mods : /\ warehouse'[j] = Torn => j \in overwritten'
                        /\ warehouse'[j] = Absent => j \notin overwritten'
    BY DEF Stored
  <1>3. Shipped' = Shipped BY DEF Shipped
  <1>4. fetched \in Hashes /\ (slip # None => slip \in Hashes) BY DEF MatTypeOK
  <1>5. mat \in {"fetch", "metadata", "sealed"} => Lists(fetched, Shipped \ todo)'
    BY <1>1, <1>3, <1>4 DEF Stored, Lists
  <1>6. slip # None => Lists(slip, Shipped)'
    BY <1>1, <1>3, <1>4 DEF Stored, Lists
  <1>7. At("copy")' <=> At("copy") BY DEF At
  <1>8. QED BY <1>2, <1>3, <1>5, <1>6, <1>7 DEF Stored

LEMMA OthersStored ==
    ASSUME MatTypeOK, Stored, OtherCopies \/ \E m \in Mods : BuildCopies(m) \/ BuildCopied(m)
    PROVE  Stored'
  <1>1. Absent # Torn /\ \A bytes \in Bytes : bytes # Absent /\ bytes # Torn
    BY MaterializeAssumption
  <1>2. ASSUME NEW m \in Mods, BuildCopies(m) PROVE Stored'
    BY <1>1, <1>2, OverwriteStored DEF BuildCopies, MatTypeOK, vars, endVars, fetchVars
  <1>3. ASSUME NEW m \in Mods, BuildCopied(m) PROVE Stored'
    <2>1. m \in overwritten /\ mat # "update" BY <1>3 DEF BuildCopied, Stored
    <2>2. QED
      BY <1>1, <1>3, <2>1, OverwriteStored
         DEF BuildCopied, MatTypeOK, vars, endVars, fetchVars, buildVars
  <1>4. CASE OtherCopies
    <2>1. PICK m \in Mods : m = rival BY <1>4 DEF OtherCopies, MatTypeOK, Mods
    <2>2. PICK bytes \in Bytes :
            /\ warehouse' = [warehouse EXCEPT ![m] = bytes]
            /\ overwritten' = IF warehouse[m] \in {Absent, bytes}
                              THEN overwritten ELSE overwritten \cup {m}
      BY <1>4, <2>1 DEF OtherCopies
    <2>3. /\ mat # "update"
          /\ UNCHANGED <<report, mat, status, slip, todo, fetched, request>>
      BY <1>4 DEF OtherCopies, Stored, vars, endVars, fetchVars
    <2>4. /\ warehouse' \in [Mods -> Bytes \cup {Torn, Absent}] /\ warehouse'[m] = bytes
          /\ \A j \in Mods : j # m => warehouse'[j] = warehouse[j]
      BY <2>2 DEF MatTypeOK
    <2>5. QED BY <1>1, <2>2, <2>3, <2>4, OverwriteStored
  <1>5. QED BY <1>2, <1>3, <1>4

LEMMA UpdateStored ==
    ASSUME Stored, Resolve \/ UpdateEnds PROVE Stored'
  <1>1. CASE Resolve
    BY <1>1 DEF Resolve, Stored, Lists, At, matVars, fileVars, fetchVars, buildVars
  <1>2. CASE UpdateEnds
    <2>1. PICK jars \in [Shipped \cap Projects -> {Right, Other, Absent}] :
            warehouse' = [m \in Mods |-> IF m \in DOMAIN jars THEN jars[m] ELSE warehouse[m]]
      BY <1>2 DEF UpdateEnds, Shipped
    <2>2. \A m \in Mods : warehouse[m] # Torn
      BY <1>2 DEF UpdateEnds, Stored
    <2>3. \A m \in Mods : warehouse'[m] # Torn
      BY <2>1, <2>2, MaterializeAssumption DEF Bytes
    <2>4. /\ mat' = "ready" /\ slip' = None /\ request' = None /\ status' # "materialized"
          /\ overwritten' = {} /\ \A m \in Mods : fetched'[m] = None
      BY <1>2 DEF UpdateEnds, Stored, fetchVars, buildVars
    <2>5. QED BY <2>3, <2>4 DEF Stored, At
  <1>3. QED BY <1>1, <1>2

LEMMA NextStored ==
    ASSUME MatTypeOK, Stored, [MatNext]_<<vars, matVars>> PROVE Stored'
  <1>1. CASE Resolve \/ UpdateEnds BY <1>1, UpdateStored
  <1>2. CASE Begin
    <2>1. /\ mat = "ready" /\ mat' = "fetch" /\ todo' = Shipped /\ Shipped' = Shipped
          /\ UNCHANGED <<report, status, warehouse, slip, fetched, request, overwritten>>
      BY <1>2 DEF Begin, vars, endVars, fileVars, buildVars, Shipped
    <2>2. request = None /\ \A m \in Mods : fetched[m] = None BY <2>1 DEF Stored
    <2>3. Lists(fetched, Shipped \ todo)' BY <2>1, <2>2 DEF Lists
    <2>4. slip # None => Lists(slip, Shipped)' BY <2>1 DEF Stored, Lists
    <2>5. QED BY <2>1, <2>2, <2>3, <2>4 DEF Stored, At
  <1>3. ASSUME NEW m \in Mods, VerifyInHouse(m) PROVE Stored' BY <1>3, VerifyStored
  <1>4. ASSUME NEW m \in Mods, Query(m) PROVE Stored'
    BY <1>4, StoredAsking DEF Query, Fetching, Request, At, vars, endVars, buildVars
  <1>5. CASE CheckCap \/ (\E answer \in Answers : Responds(answer))
    <2>1. /\ mat = "fetch" /\ request # None
          /\ UNCHANGED <<report, mat, fileVars, todo, fetched, overwritten>>
      BY <1>5 DEF CheckCap, Responds, At, vars, endVars, buildVars
    <2>2. request \in Requests /\ request.mod \in todo BY <2>1 DEF MatTypeOK, Stored
    <2>3. request'.mod = request.mod /\ request'.step # "copy"
      <3>1. CASE CheckCap
        <4>1. request' = [request EXCEPT !.step = "send"] /\ "send" \in Steps
          BY <3>1 DEF CheckCap, Steps
        <4>2. request'.mod = request.mod /\ request'.step = "send"
          BY <2>2, <4>1, StepTaken, Zenon
        <4>3. QED BY <4>2
      <3>2. ASSUME NEW answer \in Answers, Responds(answer)
            PROVE  request'.mod = request.mod /\ request'.step # "copy"
        <4>1. PICK w \in Weights(KindAsked) :
                request' = [request EXCEPT !.step = answer, !.weight = w]
          BY <3>2 DEF Responds
        <4>2. KindAsked \in Kinds BY <2>2, RequestKind DEF KindAsked
        <4>3. w \in Nat BY <4>1, <4>2, Weighed
        <4>4. request \in Requests BY <2>2
        <4>5. request'.mod = request.mod BY <4>1, <4>3, <4>4 DEF Requests
        <4>6. request'.step = answer BY <4>1, <4>3, <4>4, NextAnswer, Zenon
        <4>7. QED BY <4>5, <4>6 DEF Answers
      <3>3. QED BY <1>5, <3>1, <3>2
    <2>4. QED BY <2>1, <2>2, <2>3, StoredAsking DEF At
  <1>6. CASE NetworkError \/ (\E answer \in Answers : RecordCall(answer))
    <2>1. /\ mat = "fetch" /\ request # None
          /\ UNCHANGED <<report, fileVars, overwritten>>
      BY <1>6 DEF NetworkError, RecordCall, At, vars, endVars, buildVars
    <2>2. request \in Requests /\ request.mod \in todo BY <2>1 DEF MatTypeOK, Stored
    <2>3. CASE Quits
      BY <2>1, <2>3, StoredQuits
    <2>4. CASE ~Quits
      <3>1. /\ UNCHANGED <<mat, todo, fetched>>
            /\ \/ request' = [request EXCEPT !.step = "check", !.try = @ + 1]
               \/ request' = [request EXCEPT !.step = "hints"]
               \/ request' = [request EXCEPT !.step = "answered"]
        <4>1. CASE NetworkError
          BY <2>4, <4>1, Zenon DEF NetworkError, Again, GivesUp
        <4>2. CASE \E answer \in Answers : RecordCall(answer)
          BY <2>4, <4>2, Zenon DEF RecordCall, Again, GivesUp
        <4>3. QED BY <1>6, <4>1, <4>2
      <3>2. request'.mod = request.mod /\ request'.step # "copy"
        <4>1. CASE request' = [request EXCEPT !.step = "check", !.try = @ + 1]
          <5>1. request'.mod = request.mod /\ request'.step = "check"
            BY <2>2, <4>1, TryTaken, Zenon
          <5>2. QED BY <5>1
        <4>2. CASE \E step \in {"hints", "answered"} : request' = [request EXCEPT !.step = step]
          <5>1. PICK step \in {"hints", "answered"} : request' = [request EXCEPT !.step = step]
            BY <4>2
          <5>2. step \in Steps /\ step # "copy" BY DEF Steps
          <5>3. request'.mod = request.mod /\ request'.step = step
            BY <2>2, <5>1, <5>2, StepTaken, Zenon
          <5>4. QED BY <5>2, <5>3
        <4>3. QED BY <3>1, <4>1, <4>2
      <3>3. UNCHANGED <<report, mat, fileVars, todo, fetched, overwritten>> BY <2>1, <3>1
      <3>4. QED BY <2>1, <2>2, <3>2, <3>3, StoredAsking DEF At
    <2>5. QED BY <2>3, <2>4
  <1>7. CASE NoBudget \/ Unusable \/ SidesUnresolved \/ SlipRefused \/ Killed
             \/ (\E answer \in Answers : RecordLost(answer))
    BY <1>7, StoredQuits
       DEF NoBudget, Unusable, SidesUnresolved, SlipRefused, Killed, RecordLost, At, Fetched,
           vars, endVars, buildVars
  <1>8. CASE ProjectAnswered
             \/ \E next \in {"versions", "project", "artifact"} : VersionsAnswered(next)
    <2>1. /\ mat = "fetch" /\ request # None
          /\ UNCHANGED <<report, mat, fileVars, todo, fetched, overwritten>>
          /\ request'.mod = request.mod /\ request'.step = "check"
      BY <1>8 DEF ProjectAnswered, VersionsAnswered, Request, At, vars, endVars, buildVars
    <2>2. request.mod \in todo BY <2>1 DEF Stored
    <2>3. QED BY <2>1, <2>2, StoredAsking DEF At
  <1>9. ASSUME NEW bytes \in Bytes, FetchExternal(bytes) PROVE Stored' BY <1>9, FetchStored
  <1>10. CASE WriteMetadata
    <2>1. /\ mat = "fetch" /\ todo = {} /\ mat' = "metadata"
          /\ UNCHANGED <<report, status, warehouse, slip, todo, fetched, request, overwritten>>
      BY <1>10 DEF WriteMetadata, Fetched, vars, endVars, fileVars, fetchVars, buildVars
    <2>2. request = None BY <2>1 DEF Stored
    <2>3. QED BY <2>1, <2>2 DEF Stored, Lists, Shipped, At
  <1>11. CASE SealSlip
    <2>1. /\ mat = "metadata" /\ mat' = "sealed" /\ slip' = fetched
          /\ UNCHANGED <<report, status, warehouse, todo, fetched, request, overwritten>>
      BY <1>11 DEF SealSlip, vars, endVars, fetchVars, buildVars
    <2>2. slip' # None BY <2>1, MaterializeAssumption DEF MatTypeOK
    <2>3. todo = {} /\ request = None /\ Lists(fetched, Shipped \ todo) BY <2>1 DEF Stored
    <2>4. Shipped \ todo = Shipped BY <2>3
    <2>5. Lists(slip, Shipped)' BY <2>1, <2>3, <2>4 DEF Lists, Shipped
    <2>6. Lists(fetched, Shipped \ todo)' BY <2>1, <2>3 DEF Lists, Shipped
    <2>7. QED BY <2>1, <2>2, <2>3, <2>5, <2>6 DEF Stored, At
  <1>12. CASE SaveState
    <2>1. /\ mat = "sealed" /\ Quits /\ UNCHANGED <<report, warehouse, slip, overwritten>>
      BY <1>12 DEF SaveState, vars, endVars, buildVars
    <2>2. slip # None BY <2>1 DEF Stored
    <2>3. QED BY <2>1, <2>2 DEF Stored, Lists, Shipped, Quits, At
  <1>13. CASE OtherCopies \/ \E m \in Mods : BuildCopies(m) \/ BuildCopied(m)
    BY <1>13, OthersStored
  <1>14. CASE OtherCalls \/ WindowPasses \/ \E k \in Kinds : OtherChecks(k)
    BY <1>14 DEF OtherCalls, WindowPasses, OtherChecks, Stored, Lists, Shipped, At, vars,
                 endVars, fileVars, fetchVars, buildVars
  <1>15. CASE \E m \in Mods : OtherFindsNone(m)
    BY <1>15 DEF OtherFindsNone, Stored, Lists, Shipped, At, vars, endVars, fileVars, fetchVars
  <1>16. CASE CopyJar BY <1>16, CopyStored
  <1>17. CASE UNCHANGED <<vars, matVars>>
    BY <1>17 DEF Stored, Lists, Shipped, At, vars, endVars, matVars, fileVars, fetchVars,
                 buildVars
  <1>18. QED
    BY <1>1, <1>2, <1>3, <1>4, <1>5, <1>6, <1>7, <1>8, <1>9, <1>10, <1>11, <1>12, <1>13,
       <1>14, <1>15, <1>16, <1>17 DEF MatNext, Materialize, Others

\* The invariant of materialize, for any report, any bytes the providers serve, any
\* kills, retries and rebuilds.
THEOREM MaterializeCorrect == MatSpec => []MatInv
  <1>1. MatInit => MatInv
    BY InitMatTyped, InitAccounted, InitStored DEF MatInv
  <1>2. MatInv /\ [MatNext]_<<vars, matVars>> => MatInv'
    BY NextMatTyped, NextAccounted, NextStored DEF MatInv
  <1>3. QED BY <1>1, <1>2, PTL DEF MatSpec

\* A sealed slip lists the jars of its report and no other, and each is in the warehouse
\* with its hash unless another process has overwritten it (materialize.py:646-880).
THEOREM SealedStored == MatSpec => []SealedIsStored
  <1>1. MatInv => SealedIsStored
    BY DEF MatInv, Stored, Lists, SealedIsStored
  <1>2. QED BY <1>1, MaterializeCorrect, PTL

\* Whatever is retried, lost or run beside it, and however much an answer weighs, a window
\* holds less than two answers above the budget, and two more for each record that was
\* not written (http.py:201, usage.py:341-352).
THEOREM BudgetIsKept == MatSpec => []BudgetKept
  <1>1. MatInv => BudgetKept
    <2> SUFFICES ASSUME MatInv, NEW k \in Kinds
                 PROVE  sent[k] < Cap[k] + (2 + 2 * lapses) * Heaviest(k)
      BY DEF BudgetKept
    <2>1. MatTypeOK /\ Accounted BY DEF MatInv
    <2>2. sent[k] < Cap[k] + 2 * Heaviest(k) + Missed(k)
      BY <2>1, Shares DEF Accounted
    <2>3. (2 + 2 * lapses) * Heaviest(k) = 2 * Heaviest(k) + Missed(k)
      <3>1. lapses \in Nat /\ Heaviest(k) \in Nat BY <2>1, Weighed DEF MatTypeOK
      <3>2. QED BY <3>1 DEF Missed
    <2>4. sent[k] \in Nat /\ Cap[k] \in Nat /\ Heaviest(k) \in Nat /\ Missed(k) \in Nat
      BY <2>1, Shares
    <2>5. QED BY <2>2, <2>3, <2>4
  <1>2. QED BY <1>1, MaterializeCorrect, PTL

----------------------------------------------------------------------------
(* The resolver under materialize: the command reads the report, and no more. *)

LEMMA CommandOnlyReads ==
    ASSUME MatTypeOK, Materialize \/ Others
    PROVE  UNCHANGED vars /\ (mat' = "update" => mat = "update")
  <1>1. ASSUME NEW m \in Mods,
               \/ VerifyInHouse(m) \/ Query(m)
               \/ BuildCopies(m) \/ BuildCopied(m) \/ OtherFindsNone(m)
        PROVE  UNCHANGED vars /\ (mat' = "update" => mat = "update")
    BY <1>1 DEF VerifyInHouse, Query, Request, BuildCopies, BuildCopied, OtherFindsNone, Got,
                Quits
  <1>2. ASSUME NEW answer \in Answers,
               Responds(answer) \/ RecordCall(answer) \/ RecordLost(answer)
        PROVE  UNCHANGED vars /\ (mat' = "update" => mat = "update")
    BY <1>2, Zenon DEF Responds, RecordCall, RecordLost, GivesUp, Again, Quits
  <1>3. CASE CheckCap \/ NetworkError
    BY <1>3, Zenon DEF CheckCap, NetworkError, GivesUp, Again, Quits
  <1>4. CASE \/ Begin \/ NoBudget \/ ProjectAnswered \/ Unusable \/ SidesUnresolved
             \/ WriteMetadata \/ SlipRefused \/ SealSlip \/ SaveState \/ Killed \/ CopyJar
             \/ (\E next \in {"versions", "project", "artifact"} : VersionsAnswered(next))
             \/ (\E bytes \in Bytes : FetchExternal(bytes))
    BY <1>4 DEF Begin, NoBudget, ProjectAnswered, Unusable, SidesUnresolved, WriteMetadata,
                SlipRefused, SealSlip, SaveState, Killed, VersionsAnswered, FetchExternal,
                Store, Copies, CopyJar, Got, Request, Quits
  <1>5. CASE OtherCalls \/ OtherCopies \/ WindowPasses \/ \E k \in Kinds : OtherChecks(k)
    BY <1>5 DEF OtherCalls, OtherCopies, WindowPasses, OtherChecks
  <1>6. QED BY <1>1, <1>2, <1>3, <1>4, <1>5 DEF Materialize, Others

\* What update leaves still stands when it ends and while the command runs and runs again.
UpdateHolds ==
    /\ mat = "update" =>
         Basic /\ Queued /\ Settled /\ Searched /\ (pc = "cyclic" => IsCycle)
    /\ RequirementsMet /\ CycleVerdict

LEMMA UpdateHeld ==
    ASSUME MatTypeOK, UpdateHolds, [MatNext]_<<vars, matVars>> PROVE UpdateHolds'
  <1>1. CASE mat = "update" /\ [Next]_vars
    <2>1. Basic' /\ Queued' /\ Settled' /\ Searched' /\ (pc = "cyclic" => IsCycle)'
      BY <1>1, NextBasic, NextQueued, NextSettled, NextSearched, NextVerdict DEF UpdateHolds
    <2>2. RequirementsMet' BY <1>1, NextMeets DEF UpdateHolds
    <2>3. CycleVerdict' BY <2>1 DEF Searched, IsCycle, CycleVerdict
    <2>4. QED BY <2>1, <2>2, <2>3 DEF UpdateHolds
  <1>2. CASE UpdateEnds
    <2>1. /\ mat' # "update" /\ pc' = "done" /\ resolved' = <<>> /\ extra' = {}
          /\ requires' = [m \in Mods |-> <<>>] /\ chain' = [m \in Mods |-> <<>>]
          /\ UNCHANGED <<report, seeds, inHouse, unknown>>
      BY <1>2 DEF UpdateEnds, inputVars, endVars
    <2>2. RequirementsMet'
      <3>1. Seeds' = Seeds BY <2>1 DEF Seeds
      <3>2. \A m \in Mods : Needs(m)' = {} BY <2>1 DEF Needs, ToSet
      <3>3. report # None => report.shipped \subseteq Mods
        BY <1>2 DEF UpdateHolds, UpdateEnds, Basic, TypeOK
      <3>4. QED BY <2>1, <3>1, <3>2, <3>3 DEF RequirementsMet, UpdateHolds
    <2>3. Resolved' = {} /\ Cascaded' = {} BY <2>1 DEF Resolved, Cascaded, ToSet
    <2>4. CycleVerdict' BY <2>1, <2>3 DEF CycleVerdict, Acyclic
    <2>5. QED BY <2>1, <2>2, <2>4 DEF UpdateHolds
  <1>3. CASE UNCHANGED vars /\ (mat' = "update" => mat = "update")
    <2>1. [Next]_vars BY <1>3
    <2>2. CASE mat = "update" BY <1>1, <2>1, <2>2
    <2>3. CASE mat # "update"
      BY <1>3, <2>3
         DEF UpdateHolds, vars, inputVars, endVars, foundVars, RequirementsMet, CycleVerdict,
             Needs, Seeds, Resolved, Cascaded, Acyclic
    <2>4. QED BY <2>2, <2>3
  <1>4. QED BY <1>1, <1>2, <1>3, CommandOnlyReads DEF MatNext, Resolve, matVars

LEMMA InitHeld == MatInit => UpdateHolds
  <1> SUFFICES ASSUME MatInit PROVE UpdateHolds
    OBVIOUS
  <1>1. /\ Init /\ pc = "seed" /\ report = None /\ work = <<>> /\ extra = {} /\ Resolved = {}
        /\ \A m \in Mods : requires[m] = <<>>
    BY InjectiveEmpty DEF MatInit, Init, Resolved
  <1>2. Basic BY <1>1, InitBasic
  <1>3. Queued BY <1>1, EmptyQueue DEF Queued
  <1>4. Settled /\ RequirementsMet BY <1>1 DEF Settled, RequirementsMet
  <1>5. Searched /\ CycleVerdict BY <1>1 DEF Searched, CycleVerdict
  <1>6. QED BY <1>1, <1>2, <1>3, <1>4, <1>5 DEF UpdateHolds

\* The report that materialize works from still ships what it requires, and comes from a
\* search that found no cycle: nothing the command does changes it (resolver.py:206-412).
THEOREM ReportStands == MatSpec => [](RequirementsMet /\ CycleVerdict)
  <1>1. MatTypeOK /\ UpdateHolds /\ [MatNext]_<<vars, matVars>> => UpdateHolds'
    BY UpdateHeld
  <1>2. MatInv => MatTypeOK BY DEF MatInv
  <1>3. UpdateHolds => RequirementsMet /\ CycleVerdict BY DEF UpdateHolds
  <1>4. QED BY <1>1, <1>2, <1>3, InitHeld, MaterializeCorrect, PTL DEF MatSpec
=============================================================================
