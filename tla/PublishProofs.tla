--------------------------- MODULE PublishProofs ---------------------------
(* Proofs about Publish, for any publishers and releases.  What is registered *)
(* is final however the publishers interleave; the registry's chain and its   *)
(* agreement with the bundles are proved for as long as they do not overlap.  *)
(* At the end, what Pull puts into the store of production.                   *)
EXTENDS Pull, TLAPS

\* The publisher has a bundle in place that is not registered yet.
Holding(p) == pc[p] \in {"tidy", "head", "append", "rollback"}

\* A release with an entry has a bundle, and so has one that is being published;
\* of these only one publisher at a time publishes the same release.
Owned ==
    /\ \A r \in Release : Registered(r) => bundle[r] # Absent
    /\ \A p \in Publisher :
           Holding(p) => bundle[release[p]] # Absent /\ ~Registered(release[p])
    /\ \A p, q \in Publisher :
           Holding(p) /\ Holding(q) /\ release[p] = release[q] => p = q

\* What holds besides as long as the publishers do not overlap.
Alone == \A p, q \in Publisher : Running(p) /\ Running(q) => p = q

Sealed == \A p \in Publisher :
    /\ pc[p] = "commit" => staging[release[p]] = p
    /\ Holding(p) => bundle[release[p]] = p

Linked == \A p \in Publisher :
    pc[p] = "append" => ~LastLineTorn /\ previous[p] = LastEntryHash

PublishedRegistered == \A r \in published : Registered(r)

Backed == \A i \in 1..Len(registry) :
    registry[i] # Torn => bundle[registry[i].release] = registry[i].manifest

InTurn == /\ Alone
          /\ Sealed
          /\ Backed
          /\ Linked
          /\ ChainUnbroken
          /\ PublishedRegistered

----------------------------------------------------------------------------

\* A line is appended after the others, or lost on a torn one.
LEMMA AppendedLine ==
    ASSUME NEW S, registry \in Seq(S), NEW line \in S
    PROVE  /\ Appended(line) \in Seq(S)
           /\ Len(registry) \in Nat
           /\ Len(Appended(line)) \in Nat
           /\ Len(registry) <= Len(Appended(line))
           /\ \A i \in 1..Len(registry) : Appended(line)[i] = registry[i]
           /\ \A i \in 1..Len(Appended(line)) :
                  i \notin 1..Len(registry) =>
                      /\ i = Len(registry) + 1
                      /\ Appended(line)[i] = line
                      /\ ~LastLineTorn
           /\ ~LastLineTorn => Len(Appended(line)) = Len(registry) + 1
  BY DEF Appended

\* The lines a step may append.
Lines == {Torn} \cup {NewEntry(p) : p \in Publisher}

\* A step leaves the registry alone, tears its last line or appends an entry.
Grows == \/ registry' = registry
         \/ registry' = Appended(Torn)
         \/ \E p \in Publisher : AppendEntry(p)

\* Every step is of that kind.
LEMMA RegistryGrows ==
    ASSUME [Next]_vars PROVE Grows
  <1>1. Next \/ UNCHANGED vars BY DEF vars
  <1>2. ASSUME NEW p \in Publisher, NEW r \in Release, Start(p, r) PROVE Grows
    BY <1>2 DEF Start, files, history, Grows
  <1>3. ASSUME NEW p \in Publisher, Clean(p) PROVE Grows
    BY <1>3 DEF Clean, RemoveStaging, Goto, files, history, Grows
  <1>4. ASSUME NEW p \in Publisher, Make(p) PROVE Grows
    BY <1>4 DEF Make, Goto, files, history, Grows
  <1>5. ASSUME NEW p \in Publisher, Stage(p) PROVE Grows
    BY <1>5 DEF Stage, Goto, files, history, Grows
  <1>6. ASSUME NEW p \in Publisher, Seal(p) PROVE Grows
    BY <1>6 DEF Seal, Goto, files, history, Grows
  <1>7. ASSUME NEW p \in Publisher, Commit(p) PROVE Grows
    BY <1>7 DEF Commit, Goto, files, history, Grows
  <1>8. ASSUME NEW p \in Publisher, Fail(p) PROVE Grows
    BY <1>8 DEF Fail, files, history, Grows
  <1>9. ASSUME NEW p \in Publisher, Tidy(p) PROVE Grows
    BY <1>9 DEF Tidy, RemoveStaging, Goto, files, history, Grows
  <1>10. ASSUME NEW p \in Publisher, Abort(p) PROVE Grows
    BY <1>10 DEF Abort, RemoveStaging, Goto, files, history, Grows
  <1>11. ASSUME NEW p \in Publisher, ReadHead(p) PROVE Grows
    BY <1>11 DEF ReadHead, Goto, files, history, Grows
  <1>12. ASSUME NEW p \in Publisher, ReadHeadFails(p) PROVE Grows
    BY <1>12 DEF ReadHeadFails, Goto, files, history, Grows
  <1>13. ASSUME NEW p \in Publisher, MakeParentFails(p) PROVE Grows
    BY <1>13 DEF MakeParentFails, Goto, files, history, Grows
  <1>14. ASSUME NEW p \in Publisher, AppendEntry(p) PROVE Grows
    BY <1>14 DEF Grows
  <1>15. ASSUME NEW p \in Publisher, AppendFails(p) PROVE Grows
    BY <1>15 DEF AppendFails, Grows
  <1>16. ASSUME NEW p \in Publisher, Rollback(p) PROVE Grows
    BY <1>16 DEF Rollback, files, history, Grows
  <1>17. ASSUME NEW p \in Publisher, Crash(p) PROVE Grows
    BY <1>17 DEF Crash, Grows
  <1>18. ASSUME NEW r \in Release, RemoveLeftover(r) PROVE Grows
    BY <1>18 DEF RemoveLeftover, files, history, Grows
  <1>19. CASE UNCHANGED vars
    BY <1>19 DEF vars, Grows
  <1>20. QED BY <1>1, <1>2, <1>3, <1>4, <1>5, <1>6, <1>7, <1>8, <1>9, <1>10, <1>11,
        <1>12, <1>13, <1>14, <1>15, <1>16, <1>17, <1>18, <1>19 DEF Next, Step

\* The lines a step appends are well formed.
LEMMA LinesTyped == ASSUME TypeOK PROVE Lines \subseteq Entry \cup {Torn}
  BY DEF TypeOK, Lines, NewEntry, Entry

\* The registry after a step, line by line.
LEMMA RegistryStep ==
    ASSUME TypeOK, NEW line \in Lines, registry' = Appended(line)
    PROVE  /\ registry' \in Seq(Entry \cup {Torn})
           /\ Len(registry) \in Nat
           /\ Len(registry') \in Nat
           /\ Len(registry) <= Len(registry')
           /\ \A i \in 1..Len(registry) : registry'[i] = registry[i]
           /\ \A i \in 1..Len(registry') :
                  i \notin 1..Len(registry) =>
                      i = Len(registry) + 1 /\ registry'[i] = line /\ ~LastLineTorn
           /\ ~LastLineTorn => Len(registry') = Len(registry) + 1
  <1>1. registry \in Seq(Entry \cup {Torn}) /\ line \in Entry \cup {Torn}
    BY LinesTyped DEF TypeOK
  <1>2. QED BY <1>1, AppendedLine

\* A registered release stays registered.
LEMMA StaysRegistered ==
    ASSUME TypeOK, [Next]_vars, NEW r, Registered(r) PROVE Registered(r)'
  <1>1. CASE registry' = registry BY <1>1 DEF Registered
  <1>2. ASSUME NEW line \in Lines, registry' = Appended(line) PROVE Registered(r)'
    BY <1>2, RegistryStep DEF Registered
  <1>3. QED BY <1>1, <1>2, RegistryGrows DEF Grows, AppendEntry, Lines

\* A release becomes registered by the append of its entry only.
LEMMA NewlyRegistered ==
    ASSUME TypeOK, NEW line \in Lines, registry' = Appended(line), NEW r,
           Registered(r)'
    PROVE  Registered(r) \/ (line # Torn /\ line.release = r)
  BY RegistryStep DEF Registered

\* The hash of the last entry is a hash.
LEMMA LastHashTyped ==
    ASSUME TypeOK, ~LastLineTorn PROVE LastEntryHash \in Seq(Release)
  <1>1. CASE registry = <<>> BY <1>1 DEF LastEntryHash
  <1>2. CASE registry # <<>>
    <2>1. registry[Len(registry)] \in Entry
      BY <1>2 DEF TypeOK, LastLineTorn
    <2>2. QED BY <1>2, <2>1 DEF LastEntryHash, EntryHash, Entry
  <1>3. QED BY <1>1, <1>2

\* The types of the variables are preserved.
LEMMA Typing == ASSUME TypeOK, [Next]_vars PROVE TypeOK'
  <1>0. registry' \in Seq(Entry \cup {Torn})
    BY RegistryGrows, RegistryStep DEF TypeOK, Grows, AppendEntry, Lines
  <1>1. Next \/ UNCHANGED vars BY DEF vars
  <1>2. ASSUME NEW p \in Publisher, NEW r \in Release, Start(p, r) PROVE TypeOK'
    BY <1>2, <1>0, PublishAssumption DEF Start, TypeOK, Stages, Ended, Content, files,
       history
  <1>3. ASSUME NEW p \in Publisher, Clean(p) PROVE TypeOK'
    BY <1>3, <1>0, PublishAssumption DEF Clean, RemoveStaging, Goto, TypeOK, Stages,
       Ended, Content, files, history, Removals
  <1>4. ASSUME NEW p \in Publisher, Make(p) PROVE TypeOK'
    BY <1>4, <1>0, PublishAssumption DEF Make, Goto, TypeOK, Stages, Ended, Content,
       files, history
  <1>5. ASSUME NEW p \in Publisher, Stage(p) PROVE TypeOK'
    BY <1>5, <1>0, PublishAssumption DEF Stage, Goto, TypeOK, Stages, Ended, Content,
       files, history
  <1>6. ASSUME NEW p \in Publisher, Seal(p) PROVE TypeOK'
    BY <1>6, <1>0, PublishAssumption DEF Seal, Goto, TypeOK, Stages, Ended, Content,
       files, history
  <1>7. ASSUME NEW p \in Publisher, Commit(p) PROVE TypeOK'
    BY <1>7, <1>0, PublishAssumption DEF Commit, Goto, TypeOK, Stages, Ended, Content,
       files, history
  <1>8. ASSUME NEW p \in Publisher, Fail(p) PROVE TypeOK'
    BY <1>8, <1>0, PublishAssumption DEF Fail, TypeOK, Stages, Ended, Content, files,
       history
  <1>9. ASSUME NEW p \in Publisher, Tidy(p) PROVE TypeOK'
    BY <1>9, <1>0, PublishAssumption DEF Tidy, RemoveStaging, Goto, TypeOK, Stages,
       Ended, Content, files, history, Removals
  <1>10. ASSUME NEW p \in Publisher, Abort(p) PROVE TypeOK'
    BY <1>10, <1>0, PublishAssumption DEF Abort, RemoveStaging, Goto, TypeOK, Stages,
       Ended, Content, files, history, Removals
  <1>11. ASSUME NEW p \in Publisher, ReadHead(p) PROVE TypeOK'
    BY <1>11, <1>0, PublishAssumption, LastHashTyped DEF ReadHead, Goto, TypeOK, Stages,
       Ended, Content, files, history
  <1>12. ASSUME NEW p \in Publisher, ReadHeadFails(p) PROVE TypeOK'
    BY <1>12, <1>0, PublishAssumption DEF ReadHeadFails, Goto, TypeOK, Stages, Ended,
       Content, files, history
  <1>13. ASSUME NEW p \in Publisher, MakeParentFails(p) PROVE TypeOK'
    BY <1>13, <1>0, PublishAssumption DEF MakeParentFails, Goto, TypeOK, Stages, Ended,
       Content, files, history
  <1>14. ASSUME NEW p \in Publisher, AppendEntry(p) PROVE TypeOK'
    BY <1>14, <1>0, PublishAssumption DEF AppendEntry, Goto, TypeOK, Stages, Ended,
       Content, files, history
  <1>15. ASSUME NEW p \in Publisher, AppendFails(p) PROVE TypeOK'
    BY <1>15, <1>0, PublishAssumption DEF AppendFails, Goto, TypeOK, Stages, Ended,
       Content, files, history
  <1>16. ASSUME NEW p \in Publisher, Rollback(p) PROVE TypeOK'
    BY <1>16, <1>0, PublishAssumption DEF Rollback, TypeOK, Stages, Ended, Content,
       files, history, Removals
  <1>17. ASSUME NEW p \in Publisher, Crash(p) PROVE TypeOK'
    BY <1>17, <1>0, PublishAssumption DEF Crash, TypeOK, Stages, Ended, Content, files,
       history,
       Running
  <1>18. ASSUME NEW r \in Release, RemoveLeftover(r) PROVE TypeOK'
    BY <1>18, <1>0, PublishAssumption DEF RemoveLeftover, TypeOK, Stages, Ended,
       Content, files, history
  <1>19. CASE UNCHANGED vars
    BY <1>19 DEF vars, TypeOK
  <1>20. QED BY <1>1, <1>2, <1>3, <1>4, <1>5, <1>6, <1>7, <1>8, <1>9, <1>10, <1>11,
        <1>12, <1>13, <1>14, <1>15, <1>16, <1>17, <1>18, <1>19 DEF Next, Step

\* Every step keeps bundles, entries and publishers in agreement.
LEMMA OwnedStep == ASSUME TypeOK, Owned, [Next]_vars PROVE Owned'
  <1>1. Next \/ UNCHANGED vars BY DEF vars
  <1>2. ASSUME NEW p \in Publisher, NEW r \in Release, Start(p, r) PROVE Owned'
    BY <1>2 DEF Start, TypeOK, Owned, Holding, Registered, files, history, Ended, Stages
  <1>3. ASSUME NEW p \in Publisher, Clean(p) PROVE Owned'
    BY <1>3 DEF Clean, RemoveStaging, Goto, TypeOK, Owned, Holding, Registered, files,
       history
  <1>4. ASSUME NEW p \in Publisher, Make(p) PROVE Owned'
    BY <1>4 DEF Make, Goto, TypeOK, Owned, Holding, Registered, files, history
  <1>5. ASSUME NEW p \in Publisher, Stage(p) PROVE Owned'
    BY <1>5 DEF Stage, Goto, TypeOK, Owned, Holding, Registered, files, history
  <1>6. ASSUME NEW p \in Publisher, Seal(p) PROVE Owned'
    BY <1>6 DEF Seal, Goto, TypeOK, Owned, Holding, Registered, files, history
  <1>7. ASSUME NEW p \in Publisher, Commit(p) PROVE Owned'
    BY <1>7 DEF Commit, Goto, TypeOK, Owned, Holding, Registered, files, history
  <1>8. ASSUME NEW p \in Publisher, Fail(p) PROVE Owned'
    BY <1>8 DEF Fail, TypeOK, Owned, Holding, Registered, files, history
  <1>9. ASSUME NEW p \in Publisher, Tidy(p) PROVE Owned'
    BY <1>9 DEF Tidy, RemoveStaging, Goto, TypeOK, Owned, Holding, Registered, files,
       history
  <1>10. ASSUME NEW p \in Publisher, Abort(p) PROVE Owned'
    BY <1>10 DEF Abort, RemoveStaging, Goto, TypeOK, Owned, Holding, Registered, files,
       history
  <1>11. ASSUME NEW p \in Publisher, ReadHead(p) PROVE Owned'
    BY <1>11 DEF ReadHead, Goto, TypeOK, Owned, Holding, Registered, files, history
  <1>12. ASSUME NEW p \in Publisher, ReadHeadFails(p) PROVE Owned'
    BY <1>12 DEF ReadHeadFails, Goto, TypeOK, Owned, Holding, Registered, files, history
  <1>13. ASSUME NEW p \in Publisher, MakeParentFails(p) PROVE Owned'
    BY <1>13 DEF MakeParentFails, Goto, TypeOK, Owned, Holding, Registered, files, history
  <1>14. ASSUME NEW p \in Publisher, AppendEntry(p) PROVE Owned'
    <2>1. \A r \in Release : Registered(r)' => Registered(r) \/ r = release[p]
      <3>1. NewEntry(p) \in Lines /\ NewEntry(p).release = release[p]
        BY DEF Lines, NewEntry
      <3>2. registry' = Appended(NewEntry(p)) BY <1>14 DEF AppendEntry
      <3>3. QED BY <3>1, <3>2, NewlyRegistered
    <2>2. /\ Holding(p) /\ release' = release /\ bundle' = bundle
          /\ pc' = [pc EXCEPT ![p] = "exit0"]
      BY <1>14 DEF AppendEntry, Goto, Holding
    <2>3. QED BY <2>1, <2>2 DEF TypeOK, Owned, Holding
  <1>15. ASSUME NEW p \in Publisher, AppendFails(p) PROVE Owned'
    <2>1. \A r \in Release : Registered(r)' => Registered(r)
      <3>1. registry' = registry \/ registry' = Appended(Torn) BY <1>15 DEF AppendFails
      <3>2. QED BY <3>1, NewlyRegistered DEF Registered, Lines
    <2>2. QED BY <1>15, <2>1, StaysRegistered DEF AppendFails, Goto, TypeOK, Owned,
          Holding
  <1>16. ASSUME NEW p \in Publisher, Rollback(p) PROVE Owned'
    BY <1>16 DEF Rollback, TypeOK, Owned, Holding, Registered, files, history
  <1>17. ASSUME NEW p \in Publisher, Crash(p) PROVE Owned'
    <2>1. \A r \in Release : Registered(r)' => Registered(r)
      <3>1. registry' = registry \/ registry' = Appended(Torn) BY <1>17 DEF Crash
      <3>2. QED BY <3>1, NewlyRegistered DEF Registered, Lines
    <2>2. QED BY <1>17, <2>1, StaysRegistered DEF Crash, TypeOK, Owned, Holding
  <1>18. ASSUME NEW r \in Release, RemoveLeftover(r) PROVE Owned'
    BY <1>18 DEF RemoveLeftover, TypeOK, Owned, Holding, Registered, files, history,
       Running,
       Stages
  <1>19. CASE UNCHANGED vars
    BY <1>19 DEF vars, Owned, Holding, Registered
  <1>20. QED BY <1>1, <1>2, <1>3, <1>4, <1>5, <1>6, <1>7, <1>8, <1>9, <1>10, <1>11,
        <1>12, <1>13, <1>14, <1>15, <1>16, <1>17, <1>18, <1>19 DEF Next, Step

\* No step changes the bundle of a registered release.
LEMMA BundleFinal ==
    ASSUME TypeOK, Owned, [Next]_vars, NEW r \in Release, Registered(r)
    PROVE  bundle'[r] = bundle[r]
  <1>1. Next \/ UNCHANGED vars BY DEF vars
  <1>2. ASSUME NEW p \in Publisher, NEW s \in Release, Start(p, s)
        PROVE  bundle'[r] = bundle[r]
    BY <1>2 DEF Start, files, history
  <1>3. ASSUME NEW p \in Publisher, Clean(p) PROVE bundle'[r] = bundle[r]
    BY <1>3 DEF Clean, RemoveStaging, Goto
  <1>4. ASSUME NEW p \in Publisher, Make(p) PROVE bundle'[r] = bundle[r]
    BY <1>4 DEF Make, Goto
  <1>5. ASSUME NEW p \in Publisher, Stage(p) PROVE bundle'[r] = bundle[r]
    BY <1>5 DEF Stage, Goto
  <1>6. ASSUME NEW p \in Publisher, Seal(p) PROVE bundle'[r] = bundle[r]
    BY <1>6 DEF Seal, Goto
  <1>7. ASSUME NEW p \in Publisher, Commit(p) PROVE bundle'[r] = bundle[r]
    BY <1>7 DEF Commit, Goto, TypeOK, Owned, Holding
  <1>8. ASSUME NEW p \in Publisher, Fail(p) PROVE bundle'[r] = bundle[r]
    BY <1>8 DEF Fail, files, history
  <1>9. ASSUME NEW p \in Publisher, Tidy(p) PROVE bundle'[r] = bundle[r]
    BY <1>9 DEF Tidy, RemoveStaging, Goto
  <1>10. ASSUME NEW p \in Publisher, Abort(p) PROVE bundle'[r] = bundle[r]
    BY <1>10 DEF Abort, RemoveStaging, Goto
  <1>11. ASSUME NEW p \in Publisher, ReadHead(p) PROVE bundle'[r] = bundle[r]
    BY <1>11 DEF ReadHead, Goto, files, history
  <1>12. ASSUME NEW p \in Publisher, ReadHeadFails(p) PROVE bundle'[r] = bundle[r]
    BY <1>12 DEF ReadHeadFails, Goto, files, history
  <1>13. ASSUME NEW p \in Publisher, MakeParentFails(p) PROVE bundle'[r] = bundle[r]
    BY <1>13 DEF MakeParentFails, Goto, files, history
  <1>14. ASSUME NEW p \in Publisher, AppendEntry(p) PROVE bundle'[r] = bundle[r]
    BY <1>14 DEF AppendEntry, Goto
  <1>15. ASSUME NEW p \in Publisher, AppendFails(p) PROVE bundle'[r] = bundle[r]
    BY <1>15 DEF AppendFails, Goto
  <1>16. ASSUME NEW p \in Publisher, Rollback(p) PROVE bundle'[r] = bundle[r]
    BY <1>16 DEF Rollback, TypeOK, Owned, Holding
  <1>17. ASSUME NEW p \in Publisher, Crash(p) PROVE bundle'[r] = bundle[r]
    BY <1>17 DEF Crash
  <1>18. ASSUME NEW s \in Release, RemoveLeftover(s) PROVE bundle'[r] = bundle[r]
    BY <1>18 DEF RemoveLeftover, TypeOK, Owned, Holding
  <1>19. CASE UNCHANGED vars
    BY <1>19 DEF vars
  <1>20. QED BY <1>1, <1>2, <1>3, <1>4, <1>5, <1>6, <1>7, <1>8, <1>9, <1>10, <1>11,
        <1>12, <1>13, <1>14, <1>15, <1>16, <1>17, <1>18, <1>19 DEF Next, Step

\* No step appends an entry for a registered release.
LEMMA NoSecondEntry ==
    ASSUME TypeOK, Owned, [Next]_vars, NEW r \in Release, Registered(r),
           NEW i \in 1..Len(registry'), registry'[i] # Torn, registry'[i].release = r
    PROVE  i \in 1..Len(registry)
  <1>1. CASE registry' = registry BY <1>1
  <1>2. CASE registry' = Appended(Torn) BY <1>2, RegistryStep DEF Lines
  <1>3. ASSUME NEW p \in Publisher, AppendEntry(p) PROVE i \in 1..Len(registry)
    <2>1. ~Registered(release[p]) BY <1>3 DEF AppendEntry, Goto, Owned, Holding
    <2>2. registry' = Appended(NewEntry(p)) /\ NewEntry(p) \in Lines
      BY <1>3 DEF AppendEntry, Lines
    <2>3. NewEntry(p).release = release[p] BY DEF NewEntry
    <2>4. QED BY <2>1, <2>2, <2>3, RegistryStep
  <1>4. QED BY <1>1, <1>2, <1>3, RegistryGrows DEF Grows

\* The state is well typed and bundles, entries and publishers agree.
THEOREM Invariance == Spec => [](TypeOK /\ Owned)
  <1>1. Init => TypeOK /\ Owned
    <2>1. ASSUME Init PROVE TypeOK
      <3>1. registry \in Seq(Entry \cup {Torn}) BY <2>1 DEF Init
      <3>2. previous \in [Publisher -> Seq(Release)] BY <2>1 DEF Init
      <3>3. overlapped \in BOOLEAN BY <2>1 DEF Init
      <3>4. QED BY <2>1, <3>1, <3>2, <3>3 DEF Init, TypeOK, Content, Ended
    <2>2. Init => Owned BY DEF Init, Owned, Holding, Registered
    <2>3. QED BY <2>1, <2>2
  <1>2. TypeOK /\ Owned /\ [Next]_vars => (TypeOK /\ Owned)'
    BY Typing, OwnedStep
  <1>3. QED BY <1>1, <1>2, PTL DEF Spec

\* A registered release is final however its publishers interleave and crash:
\* its bundle stays as it is, its entry stays and remains the only one.
THEOREM RegistrationFinal == Spec => RegisteredIsFinal
  <1>1. TypeOK /\ Owned /\ [Next]_vars =>
            [\A r \in Release : Registered(r) =>
               /\ bundle'[r] = bundle[r]
               /\ Registered(r)'
               /\ \A i \in 1..Len(registry') :
                      (registry'[i] # Torn /\ registry'[i].release = r) =>
                          i \in 1..Len(registry)]_vars
    BY BundleFinal, StaysRegistered, NoSecondEntry
  <1>2. QED BY <1>1, Invariance, PTL DEF Spec, RegisteredIsFinal

\* The state is well typed, for any publishers and releases.
THEOREM TypeCorrect == Spec => []TypeOK
  <1>1. QED BY Invariance, PTL

----------------------------------------------------------------------------
\* From here on the publishers do not overlap.

\* One publisher at a time commits what it has sealed.
LEMMA SealedStep ==
    ASSUME ~overlapped', TypeOK, Alone, Sealed, [Next]_vars PROVE Alone' /\ Sealed'
  <1>1. Next \/ UNCHANGED vars BY DEF vars
  <1>2. ASSUME NEW p \in Publisher, NEW r \in Release, Start(p, r) PROVE Alone' /\ Sealed'
    BY <1>2 DEF Start, TypeOK, Alone, Sealed, Running, Holding, Stages, files, history,
       Ended
  <1>3. ASSUME NEW p \in Publisher, Clean(p) PROVE Alone' /\ Sealed'
    BY <1>3 DEF Clean, RemoveStaging, Goto, TypeOK, Alone, Sealed, Running, Holding,
       Stages, files, history
  <1>4. ASSUME NEW p \in Publisher, Make(p) PROVE Alone' /\ Sealed'
    BY <1>4 DEF Make, Goto, TypeOK, Alone, Sealed, Running, Holding, Stages, files,
       history
  <1>5. ASSUME NEW p \in Publisher, Stage(p) PROVE Alone' /\ Sealed'
    BY <1>5 DEF Stage, Goto, TypeOK, Alone, Sealed, Running, Holding, Stages, files,
       history
  <1>6. ASSUME NEW p \in Publisher, Seal(p) PROVE Alone' /\ Sealed'
    BY <1>6 DEF Seal, Goto, TypeOK, Alone, Sealed, Running, Holding, Stages, files,
       history
  <1>7. ASSUME NEW p \in Publisher, Commit(p) PROVE Alone' /\ Sealed'
    BY <1>7 DEF Commit, Goto, TypeOK, Alone, Sealed, Running, Holding, Stages, files,
       history
  <1>8. ASSUME NEW p \in Publisher, Fail(p) PROVE Alone' /\ Sealed'
    BY <1>8 DEF Fail, TypeOK, Alone, Sealed, Running, Holding, Stages, files, history
  <1>9. ASSUME NEW p \in Publisher, Tidy(p) PROVE Alone' /\ Sealed'
    BY <1>9 DEF Tidy, RemoveStaging, Goto, TypeOK, Alone, Sealed, Running, Holding,
       Stages, files, history
  <1>10. ASSUME NEW p \in Publisher, Abort(p) PROVE Alone' /\ Sealed'
    BY <1>10 DEF Abort, RemoveStaging, Goto, TypeOK, Alone, Sealed, Running, Holding,
       Stages, files, history
  <1>11. ASSUME NEW p \in Publisher, ReadHead(p) PROVE Alone' /\ Sealed'
    BY <1>11 DEF ReadHead, Goto, TypeOK, Alone, Sealed, Running, Holding, Stages, files,
       history
  <1>12. ASSUME NEW p \in Publisher, ReadHeadFails(p) PROVE Alone' /\ Sealed'
    BY <1>12 DEF ReadHeadFails, Goto, TypeOK, Alone, Sealed, Running, Holding, Stages,
       files, history
  <1>13. ASSUME NEW p \in Publisher, MakeParentFails(p) PROVE Alone' /\ Sealed'
    BY <1>13 DEF MakeParentFails, Goto, TypeOK, Alone, Sealed, Running, Holding, Stages,
       files, history
  <1>14. ASSUME NEW p \in Publisher, AppendEntry(p) PROVE Alone' /\ Sealed'
    BY <1>14 DEF AppendEntry, Goto, TypeOK, Alone, Sealed, Running, Holding, Stages,
       files, history
  <1>15. ASSUME NEW p \in Publisher, AppendFails(p) PROVE Alone' /\ Sealed'
    BY <1>15 DEF AppendFails, Goto, TypeOK, Alone, Sealed, Running, Holding, Stages,
       files, history
  <1>16. ASSUME NEW p \in Publisher, Rollback(p) PROVE Alone' /\ Sealed'
    BY <1>16 DEF Rollback, TypeOK, Alone, Sealed, Running, Holding, Stages, files,
       history, Ended
  <1>17. ASSUME NEW p \in Publisher, Crash(p) PROVE Alone' /\ Sealed'
    BY <1>17 DEF Crash, TypeOK, Alone, Sealed, Running, Holding, Stages, files, history
  <1>18. ASSUME NEW r \in Release, RemoveLeftover(r) PROVE Alone' /\ Sealed'
    BY <1>18 DEF RemoveLeftover, TypeOK, Alone, Sealed, Running, Holding, Stages, files,
       history
  <1>19. CASE UNCHANGED vars
    BY <1>19 DEF vars, Alone, Sealed, Running, Holding
  <1>20. QED BY <1>1, <1>2, <1>3, <1>4, <1>5, <1>6, <1>7, <1>8, <1>9, <1>10, <1>11,
        <1>12, <1>13, <1>14, <1>15, <1>16, <1>17, <1>18, <1>19 DEF Next, Step

\* The hash a publisher has read is that of the last entry until it appends.
LEMMA LinkedStep ==
    ASSUME ~overlapped', TypeOK, Alone, Linked, [Next]_vars PROVE Linked'
  <1>1. Next \/ UNCHANGED vars BY DEF vars
  <1>2. ASSUME NEW p \in Publisher, NEW r \in Release, Start(p, r) PROVE Linked'
    BY <1>2 DEF Start, TypeOK, Alone, Linked, Running, Stages, LastLineTorn,
       LastEntryHash, files, history, Ended
  <1>3. ASSUME NEW p \in Publisher, Clean(p) PROVE Linked'
    BY <1>3 DEF Clean, RemoveStaging, Goto, TypeOK, Alone, Linked, Running, Stages,
       LastLineTorn, LastEntryHash, files, history
  <1>4. ASSUME NEW p \in Publisher, Make(p) PROVE Linked'
    BY <1>4 DEF Make, Goto, TypeOK, Alone, Linked, Running, Stages, LastLineTorn,
       LastEntryHash, files, history
  <1>5. ASSUME NEW p \in Publisher, Stage(p) PROVE Linked'
    BY <1>5 DEF Stage, Goto, TypeOK, Alone, Linked, Running, Stages, LastLineTorn,
       LastEntryHash, files, history
  <1>6. ASSUME NEW p \in Publisher, Seal(p) PROVE Linked'
    BY <1>6 DEF Seal, Goto, TypeOK, Alone, Linked, Running, Stages, LastLineTorn,
       LastEntryHash, files, history
  <1>7. ASSUME NEW p \in Publisher, Commit(p) PROVE Linked'
    BY <1>7 DEF Commit, Goto, TypeOK, Alone, Linked, Running, Stages, LastLineTorn,
       LastEntryHash, files, history
  <1>8. ASSUME NEW p \in Publisher, Fail(p) PROVE Linked'
    BY <1>8 DEF Fail, TypeOK, Alone, Linked, Running, Stages, LastLineTorn,
       LastEntryHash, files, history
  <1>9. ASSUME NEW p \in Publisher, Tidy(p) PROVE Linked'
    BY <1>9 DEF Tidy, RemoveStaging, Goto, TypeOK, Alone, Linked, Running, Stages,
       LastLineTorn, LastEntryHash, files, history
  <1>10. ASSUME NEW p \in Publisher, Abort(p) PROVE Linked'
    BY <1>10 DEF Abort, RemoveStaging, Goto, TypeOK, Alone, Linked, Running, Stages,
       LastLineTorn, LastEntryHash, files, history
  <1>11. ASSUME NEW p \in Publisher, ReadHead(p) PROVE Linked'
    BY <1>11 DEF ReadHead, Goto, TypeOK, Alone, Linked, Running, Stages, LastLineTorn,
       LastEntryHash, files, history
  <1>12. ASSUME NEW p \in Publisher, ReadHeadFails(p) PROVE Linked'
    BY <1>12 DEF ReadHeadFails, Goto, TypeOK, Alone, Linked, Running, Stages,
       LastLineTorn, LastEntryHash, files, history
  <1>13. ASSUME NEW p \in Publisher, MakeParentFails(p) PROVE Linked'
    BY <1>13 DEF MakeParentFails, Goto, TypeOK, Alone, Linked, Running, Stages,
       LastLineTorn, LastEntryHash, files, history
  <1>14. ASSUME NEW p \in Publisher, AppendEntry(p) PROVE Linked'
    BY <1>14 DEF AppendEntry, Goto, TypeOK, Alone, Linked, Running, Stages,
       LastLineTorn, LastEntryHash, files, history
  <1>15. ASSUME NEW p \in Publisher, AppendFails(p) PROVE Linked'
    BY <1>15 DEF AppendFails, Goto, TypeOK, Alone, Linked, Running, Stages,
       LastLineTorn, LastEntryHash, files, history
  <1>16. ASSUME NEW p \in Publisher, Rollback(p) PROVE Linked'
    BY <1>16 DEF Rollback, TypeOK, Alone, Linked, Running, Stages, LastLineTorn,
       LastEntryHash, files, history, Ended
  <1>17. ASSUME NEW p \in Publisher, Crash(p) PROVE Linked'
    BY <1>17 DEF Crash, TypeOK, Alone, Linked, Running, Stages, LastLineTorn,
       LastEntryHash, files, history
  <1>18. ASSUME NEW r \in Release, RemoveLeftover(r) PROVE Linked'
    BY <1>18 DEF RemoveLeftover, TypeOK, Alone, Linked, Running, Stages, LastLineTorn,
       LastEntryHash, files, history
  <1>19. CASE UNCHANGED vars
    BY <1>19 DEF vars, Linked, LastLineTorn, LastEntryHash
  <1>20. QED BY <1>1, <1>2, <1>3, <1>4, <1>5, <1>6, <1>7, <1>8, <1>9, <1>10, <1>11,
        <1>12, <1>13, <1>14, <1>15, <1>16, <1>17, <1>18, <1>19 DEF Next, Step

\* The entries keep their bundles, the chain its links.
LEMMA RegistrySteps ==
    ASSUME TypeOK, Owned, InTurn, [Next]_vars
    PROVE  Backed' /\ ChainUnbroken' /\ PublishedRegistered'
  <1>1. \A i \in 1..Len(registry) : registry[i] # Torn =>
            /\ registry[i].release \in Release
            /\ bundle'[registry[i].release] = registry[i].manifest
    <2> SUFFICES ASSUME NEW i \in 1..Len(registry), registry[i] # Torn
                 PROVE  /\ registry[i].release \in Release
                        /\ bundle'[registry[i].release] = registry[i].manifest
      OBVIOUS
    <2>1. registry[i] \in Entry BY DEF TypeOK
    <2>2. registry[i].release \in Release BY <2>1 DEF Entry
    <2>3. Registered(registry[i].release) BY DEF Registered
    <2>4. bundle[registry[i].release] = registry[i].manifest
      BY DEF InTurn, Backed
    <2>5. QED BY <2>2, <2>3, <2>4, BundleFinal
  <1>2. published' = published \/ \E p \in Publisher : AppendEntry(p)
    BY DEF Next, vars, Step, Start, Clean, RemoveStaging, Make, Stage, Seal, Commit, Fail,
           Tidy, Abort, ReadHead, ReadHeadFails, MakeParentFails, AppendFails, Rollback,
           Crash, RemoveLeftover, history
  <1>3. CASE registry' = registry /\ published' = published
    BY <1>1, <1>3, StaysRegistered
       DEF InTurn, Backed, ChainUnbroken, PublishedRegistered
  <1>4. CASE registry' = Appended(Torn) /\ published' = published
    <2>1. Torn \in Lines BY DEF Lines
    <2>2. Backed'
      BY <1>1, <1>4, <2>1, RegistryStep DEF Backed
    <2>3. ChainUnbroken'
      <3>1. CASE LastLineTorn
        <4>1. registry' = registry BY <1>4, <3>1 DEF Appended
        <4>2. QED BY <4>1 DEF InTurn, ChainUnbroken
      <3>2. CASE ~LastLineTorn
        <4>1. \A i \in 1..Len(registry) : registry[i] # Torn
          BY <3>2 DEF InTurn, ChainUnbroken, LastLineTorn
        <4>2. QED BY <1>4, <2>1, <3>2, <4>1, RegistryStep
                  DEF InTurn, ChainUnbroken, EntryHash
      <3>3. QED BY <3>1, <3>2
    <2>4. PublishedRegistered'
      BY <1>4, StaysRegistered DEF InTurn, PublishedRegistered
    <2>5. QED BY <2>2, <2>3, <2>4
  <1>5. ASSUME NEW p \in Publisher, AppendEntry(p)
        PROVE  Backed' /\ ChainUnbroken' /\ PublishedRegistered'
    <2>1. /\ registry' = Appended(NewEntry(p)) /\ NewEntry(p) \in Lines
          /\ bundle' = bundle /\ published' = published \cup {release[p]}
      BY <1>5 DEF AppendEntry, Lines
    <2>2. /\ ~LastLineTorn /\ previous[p] = LastEntryHash
          /\ bundle[release[p]] = p
      BY <1>5 DEF AppendEntry, Goto, InTurn, Linked, Sealed, Holding
    <2>3. /\ NewEntry(p).release = release[p] /\ NewEntry(p).manifest = p
          /\ NewEntry(p).previous = previous[p]
          /\ NewEntry(p) \in Entry
      BY DEF NewEntry, TypeOK, Entry
    <2>4. NewEntry(p) # Torn BY <2>3, PublishAssumption
    <2>5. /\ Len(registry) \in Nat /\ Len(registry') = Len(registry) + 1
          /\ \A i \in 1..Len(registry) : registry'[i] = registry[i]
          /\ registry'[Len(registry) + 1] = NewEntry(p)
      BY <2>1, <2>2, RegistryStep
    <2>6. Backed'
      BY <1>1, <2>1, <2>2, <2>3, <2>5 DEF Backed
    <2>7. ChainUnbroken'
      <3>1. \A i \in 1..Len(registry) : registry[i] # Torn
        BY <2>2 DEF InTurn, ChainUnbroken, LastLineTorn
      <3>2. previous[p] = IF Len(registry) = 0 THEN <<>>
                          ELSE EntryHash(registry[Len(registry)])
        BY <2>2 DEF LastEntryHash, TypeOK
      <3>3. \A i \in 1..Len(registry) :
                registry[i].previous =
                    IF i = 1 THEN <<>> ELSE EntryHash(registry[i - 1])
        BY <3>1 DEF InTurn, ChainUnbroken
      <3>4. SUFFICES ASSUME NEW i \in 1..Len(registry')
                     PROVE /\ registry'[i] # Torn
                           /\ registry'[i].previous =
                                 IF i = 1 THEN <<>> ELSE EntryHash(registry'[i - 1])
        BY DEF ChainUnbroken, EntryHash
      <3>5. CASE i = Len(registry) + 1
        BY <2>3, <2>4, <2>5, <3>2, <3>5
      <3>6. CASE i # Len(registry) + 1
        <4>1. i \in 1..Len(registry) /\ (i # 1 => i - 1 \in 1..Len(registry))
          BY <2>5, <3>6
        <4>2. QED BY <2>5, <3>1, <3>3, <4>1
      <3>7. QED BY <3>5, <3>6
    <2>8. PublishedRegistered'
      BY <2>1, <2>3, <2>4, <2>5, StaysRegistered
         DEF InTurn, PublishedRegistered, Registered
    <2>9. QED BY <2>6, <2>7, <2>8
  <1>6. QED BY <1>2, <1>3, <1>4, <1>5, RegistryGrows DEF Grows

\* A publisher that starts while another runs is remembered.
LEMMA OverlapRemembered ==
    ASSUME TypeOK, [Next]_vars, ~overlapped' PROVE ~overlapped
  <1>1. overlapped' = overlapped \/ \E p \in Publisher, r \in Release : Start(p, r)
    BY DEF Next, vars, Step, Clean, RemoveStaging, Make, Stage, Seal, Commit, Fail, Tidy,
           Abort, ReadHead, ReadHeadFails, MakeParentFails, AppendEntry, AppendFails,
           Rollback, Crash, RemoveLeftover, history
  <1>2. QED BY <1>1 DEF Start, TypeOK

\* The strengthened invariant of publishers that do not overlap.
THEOREM InTurnInvariance == Spec => [](~overlapped => InTurn)
  <1>1. Init => InTurn
    BY DEF Init, InTurn, Alone, Sealed, Backed, Linked, ChainUnbroken,
           PublishedRegistered, Running, Holding, Stages
  <1>2. TypeOK /\ Owned /\ (~overlapped => InTurn) /\ [Next]_vars =>
            (~overlapped => InTurn)'
    <2> SUFFICES ASSUME TypeOK, Owned, ~overlapped => InTurn, [Next]_vars, ~overlapped'
                 PROVE  InTurn'
      OBVIOUS
    <2>1. InTurn BY OverlapRemembered
    <2>2. Alone' /\ Sealed' BY <2>1, SealedStep DEF InTurn
    <2>3. Linked' BY <2>1, LinkedStep DEF InTurn
    <2>4. QED BY <2>1, <2>2, <2>3, RegistrySteps DEF InTurn
  <1>3. QED BY <1>1, <1>2, Invariance, PTL DEF Spec

\* Every entry's bundle is in place, the one its manifest hash covers.
THEOREM BundlesInPlace == Spec => []EntriesHaveBundles
  <1>1. (~overlapped => InTurn) => EntriesHaveBundles
    BY DEF InTurn, Backed, EntriesHaveBundles
  <1>2. QED BY <1>1, InTurnInvariance, PTL

\* The registry is one chain, torn at its end if at all.
THEOREM OneChain == Spec => []ChainUnbrokenInTurn
  <1>1. (~overlapped => InTurn) => ChainUnbrokenInTurn
    BY DEF InTurn, ChainUnbrokenInTurn
  <1>2. QED BY <1>1, InTurnInvariance, PTL

\* The length of a sequence without its last element.
LEMMA FrontLen ==
    ASSUME NEW S, NEW s \in Seq(S), Len(s) # 0
    PROVE  Len(SubSeq(s, 1, Len(s) - 1)) = Len(s) - 1
  <1>1. Len(s) \in Nat /\ 1 <= Len(s) OBVIOUS
  <1>2. QED BY <1>1

\* What was published verifies for good, on the lines before a torn one.
LEMMA VerifiesLater ==
    ASSUME TypeOK, ~overlapped => InTurn PROVE PublishedVerifies
  <1> SUFFICES ASSUME InTurn PROVE ~overlapped => PublishedVerifies
    BY DEF PublishedVerifies
  <1> DEFINE lines == IF LastLineTorn THEN SubSeq(registry, 1, Len(registry) - 1)
                      ELSE registry
  <1>1. /\ Len(lines) \in Nat /\ Len(lines) <= Len(registry)
        /\ \A i \in 1..Len(lines) : lines[i] = registry[i]
    BY DEF LastLineTorn, TypeOK
  <1>2. \A i \in 1..Len(registry) : registry[i] # Torn => i \in 1..Len(lines)
    BY DEF LastLineTorn, TypeOK
  <1>3. \A i \in 1..Len(lines) : registry[i] # Torn
    <2>1. CASE LastLineTorn
      <3>1. Len(registry) \in Nat /\ Len(registry) # 0
        BY <2>1 DEF LastLineTorn, TypeOK
      <3>2. lines = SubSeq(registry, 1, Len(registry) - 1) BY <2>1
      <3>3. Len(lines) = Len(registry) - 1
        BY <3>1, <3>2, FrontLen DEF TypeOK
      <3>4. QED BY <3>1, <3>3 DEF InTurn, ChainUnbroken
    <2>2. CASE ~LastLineTorn
      BY <2>2 DEF InTurn, ChainUnbroken, LastLineTorn, TypeOK
    <2>3. QED BY <2>1, <2>2
  <1> HIDE DEF lines
  <1>4. VerifyChain(lines)
    <2> SUFFICES ASSUME NEW i \in 1..Len(lines)
                 PROVE  /\ lines[i] # Torn
                        /\ lines[i].previous =
                              IF i = 1 THEN <<>> ELSE EntryHash(lines[i - 1])
      BY DEF VerifyChain
    <2>1. i \in 1..Len(registry) /\ (i # 1 => i - 1 \in 1..Len(lines))
      BY <1>1, Z3 DEF TypeOK
    <2>2. QED BY <1>1, <1>3, <2>1 DEF InTurn, ChainUnbroken
  <1>5. ASSUME NEW r \in published PROVE VerifyRelease(lines, r)
    <2>1. PICK i \in 1..Len(registry) : registry[i] # Torn /\ registry[i].release = r
      BY DEF InTurn, PublishedRegistered, Registered
    <2>2. lines[i] = registry[i] /\ i \in 1..Len(lines) BY <1>1, <1>2, <2>1
    <2>3. registry[i].manifest = bundle[r]
      BY <2>1 DEF InTurn, Backed
    <2>4. QED BY <1>4, <2>1, <2>2, <2>3 DEF VerifyRelease
  <1>6. QED BY <1>5 DEF PublishedVerifies, lines

\* A release whose publication returned 0 is verifiable ever after.
THEOREM PublishedStaysVerified == Spec => []PublishedVerifies
  <1>1. TypeOK /\ (~overlapped => InTurn) => PublishedVerifies BY VerifiesLater
  <1>2. QED BY <1>1, Invariance, InTurnInvariance, PTL

----------------------------------------------------------------------------

\* What the store holds, and the pull under way.
PullTypeOK ==
    /\ store \in [Pulled -> Copy \cup {Absent}]
    /\ pull # None => pull.release \in Pulled

\* Nothing but a copy that was verified is ever renamed into the store.
StoredWhole == \A r \in Pulled : store[r] # Absent => store[r].whole = TRUE

PullInv == PullTypeOK /\ StoredWhole

\* Publication goes on as if nothing were pulled: a pull changes none of its files.
THEOREM PullsOnlyRead == PullSpec => Spec
  <1>1. PullInit => Init BY DEF PullInit
  <1>2. [PullNext]_<<vars, pullVars>> => [Next]_vars
    BY DEF PullNext, Publishing, PullStart, PullCompletes, PullFails, vars
  <1>3. QED BY <1>1, <1>2, PTL DEF PullSpec, Spec

\* A copy that verifies is a copy, and whole.
LEMMA VerifiedCopy ==
    ASSUME NEW copy, VerifyBundle(copy)
    PROVE  copy \in Copy /\ copy.whole = TRUE
  BY DEF VerifyBundle, Copy

\* The store holds verified copies only, whatever was published, rolled back or torn
\* while they were made.
THEOREM StoreVerified == PullSpec => []PullInv
  <1>1. PullInit => PullInv
    BY DEF PullInit, PullInv, PullTypeOK, StoredWhole
  <1>2. PullInv /\ [PullNext]_<<vars, pullVars>> => PullInv'
    <2> SUFFICES ASSUME PullInv, [PullNext]_<<vars, pullVars>> PROVE PullInv'
      OBVIOUS
    <2>1. CASE UNCHANGED pullVars
      BY <2>1 DEF pullVars, PullInv, PullTypeOK, StoredWhole
    <2>2. ASSUME NEW r \in Pulled, PullStart(r) PROVE PullInv'
      BY <2>2 DEF PullStart, PullInv, PullTypeOK, StoredWhole
    <2>3. CASE PullCompletes
      <3>1. PICK copy \in Arrives(pull.seen, bundle[pull.release]) :
                /\ VerifyBundle(copy)
                /\ store' = [store EXCEPT ![pull.release] = copy]
        BY <2>3 DEF PullCompletes
      <3>2. copy \in Copy /\ copy.whole = TRUE BY <3>1, VerifiedCopy
      <3>3. pull.release \in Pulled /\ pull' = None
        BY <2>3 DEF PullCompletes, PullInv, PullTypeOK
      <3>4. QED BY <3>1, <3>2, <3>3 DEF PullInv, PullTypeOK, StoredWhole
    <2>4. CASE PullFails
      BY <2>4 DEF PullFails, PullInv, PullTypeOK, StoredWhole
    <2>5. QED BY <2>1, <2>2, <2>3, <2>4 DEF PullNext, Publishing
  <1>3. QED BY <1>1, <1>2, PTL DEF PullSpec

\* What production may deploy is the bundle that was published, with all its files,
\* though the check before a deployment compares manifests only.
THEOREM DeployedAsPublished == PullSpec => []DeployableIsPublished
  <1>1. PullInv /\ (~overlapped => InTurn) => DeployableIsPublished
    <2> SUFFICES ASSUME PullInv, InTurn, NEW r \in Pulled, Deployable(r)
                 PROVE  store[r] = [manifest |-> bundle[r], whole |-> TRUE]
      BY DEF DeployableIsPublished
    <2>1. PICK i \in 1..Len(registry) :
              registry[i].release = r /\ registry[i].manifest = store[r].manifest
      BY DEF Deployable
    <2>2. registry[i] # Torn BY DEF Deployable, VerifyChain
    <2>3. bundle[r] = store[r].manifest BY <2>1, <2>2 DEF InTurn, Backed
    <2>4. store[r] \in Copy /\ store[r].whole = TRUE
      BY DEF Deployable, PullInv, PullTypeOK, StoredWhole
    <2>5. QED BY <2>3, <2>4 DEF Copy
  <1>2. QED BY <1>1, PullsOnlyRead, StoreVerified, InTurnInvariance, PTL
=============================================================================
