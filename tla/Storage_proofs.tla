--------------------------- MODULE Storage_proofs ----------------------------
(****************************************************************************)
(* What the store, the cache of answers and the assets of a benchmark       *)
(* promise, for any number of processes, callers and benchmarks that may    *)
(* stop at any time.                                                        *)
(****************************************************************************)
EXTENDS Storage, InductionLemmas

(* The migrations.                                                          *)

\* What a process that is migrating relies on: the versions before its own are
\* recorded and applied, and its own is applied before it is recorded.
Below(p) == (1 .. at[p] - 1) \subseteq recorded
Prepared ==
  \A p \in Procs :
    /\ pc[p] \in {"inspect", "change", "record"} => at[p] \in Version /\ Below(p)
    /\ pc[p] = "change" /\ at[p] \in AddsColumn /\ has[p] => at[p] \in schema
    /\ pc[p] = "record" => at[p] \in schema
    /\ pc[p] = "open" => recorded = Version

\* While nobody else wrote, what a process saw is what there is, and neither
\* the column nor the version it is about to add is there.
Abreast ==
  \A p \in Procs \ behind :
    /\ pc[p] \in {"inspect", "change", "record"} => at[p] \notin recorded
    /\ pc[p] = "change" /\ at[p] \in AddsColumn => (has[p] <=> at[p] \in schema)

IInv == TypeOK /\ RecordedIsApplied /\ Prepared /\ Abreast /\ FailsOnlyBehind

\* A file that has versions has a latest one.
LEMMA LatestIs ==
  ASSUME recorded \subseteq Version
  PROVE  /\ Latest \in 0 .. CURRENT_VERSION
         /\ recorded = {} => Latest = 0
         /\ recorded # {} => Latest \in recorded /\ \A w \in recorded : w <= Latest
<1>1. CASE recorded = {}
  BY <1>1 DEF Latest, CURRENT_VERSION
<1>2. CASE recorded # {}
  <2>1. \E v \in recorded : \A w \in recorded : w <= v
    <3>1. CASE 5 \in recorded
      BY <3>1 DEF Version, CURRENT_VERSION
    <3>2. CASE 5 \notin recorded /\ 4 \in recorded
      BY <3>2 DEF Version, CURRENT_VERSION
    <3>3. CASE {4, 5} \cap recorded = {} /\ 3 \in recorded
      BY <3>3 DEF Version, CURRENT_VERSION
    <3>4. CASE {3, 4, 5} \cap recorded = {} /\ 2 \in recorded
      BY <3>4 DEF Version, CURRENT_VERSION
    <3>5. CASE {2, 3, 4, 5} \cap recorded = {}
      <4>1. \A w \in recorded : w = 1
        BY <3>5 DEF Version, CURRENT_VERSION
      <4>2. 1 \in recorded
        BY <1>2, <4>1
      <4> QED BY <4>1, <4>2
    <3> QED BY <3>1, <3>2, <3>3, <3>4, <3>5
  <2>2. Latest \in recorded /\ \A w \in recorded : w <= Latest
    BY <1>2, <2>1 DEF Latest
  <2> QED BY <1>2, <2>2 DEF Version, CURRENT_VERSION
<1> QED BY <1>1, <1>2

\* Every file the program finds at its start is in order.
LEMMA InitIInv == Init => IInv
BY MigrationsAssumption
   DEF Init, IInv, TypeOK, RecordedIsApplied, Prepared, Abreast, FailsOnlyBehind,
       Version, CURRENT_VERSION

\* Going on to a version whose predecessors are recorded.
LEMMA GoToKeeps ==
  ASSUME IInv, NEW p \in Procs, NEW v \in 1 .. CURRENT_VERSION + 1, GoTo(p, v),
         recorded \subseteq recorded', recorded' \subseteq Version,
         (1 .. v - 1) \subseteq recorded', v \notin recorded',
         \/ behind' = behind \ {p} /\ recorded' = recorded
         \/ behind' = behind \cup (Procs \ {p}),
         RecordedIsApplied', UNCHANGED <<schema, has, crashes>>
  PROVE  IInv'
<1>1. at' = [at EXCEPT ![p] = v] /\ pc' = [pc EXCEPT ![p] = IF v \in Version THEN Start(v) ELSE "open"]
  BY DEF GoTo
<1>2. TypeOK'
  BY <1>1 DEF IInv, TypeOK, Start, CURRENT_VERSION
<1>3. ASSUME NEW q \in Procs, q # p
      PROVE  /\ pc'[q] \in {"inspect", "change", "record"} => at'[q] \in Version /\ Below(q)'
             /\ pc'[q] = "change" /\ at'[q] \in AddsColumn /\ has'[q] => at'[q] \in schema'
             /\ pc'[q] = "record" => at'[q] \in schema'
             /\ pc'[q] = "open" => recorded' = Version
  <2>1. pc'[q] = pc[q] /\ at'[q] = at[q]
    BY <1>1, <1>3 DEF IInv, TypeOK
  <2> QED BY <2>1, <1>3 DEF IInv, Prepared, Below
<1>6. FailsOnlyBehind'
  <2>1. pc'[p] # "failed"
    BY <1>1 DEF IInv, TypeOK, Start
  <2>2. \A q \in Procs : q # p => pc'[q] = pc[q] /\ (q \in behind => q \in behind')
    BY <1>1 DEF IInv, TypeOK
  <2> QED BY <2>1, <2>2 DEF IInv, FailsOnlyBehind
<1>7. Abreast'
  <2>1. ASSUME NEW q \in Procs \ behind', q # p
        PROVE  /\ q \notin behind /\ recorded' = recorded
               /\ pc'[q] = pc[q] /\ at'[q] = at[q]
    BY <1>1, <2>1 DEF IInv, TypeOK
  <2>2. at'[p] = v /\ (pc'[p] = "change" => v \notin AddsColumn)
    BY <1>1 DEF IInv, TypeOK, Start
  <2> QED BY <2>1, <2>2 DEF IInv, Abreast
<1>4. CASE v \in Version
  <2>1. at'[p] = v /\ pc'[p] = Start(v) /\ Below(p)'
    BY <1>1, <1>4 DEF IInv, TypeOK, Below
  <2>2. pc'[p] # "record" /\ pc'[p] # "open" /\ (pc'[p] = "change" => v \notin AddsColumn)
    BY <2>1 DEF Start
  <2> QED BY <1>2, <1>3, <1>4, <1>6, <1>7, <2>1, <2>2 DEF IInv, Prepared
<1>5. CASE v = CURRENT_VERSION + 1
  <2>1. recorded' = Version
    <3>1. v - 1 = 5
      BY <1>5 DEF CURRENT_VERSION
    <3>2. (1 .. 5) \subseteq recorded'
      BY <3>1
    <3> QED BY <3>2 DEF Version, CURRENT_VERSION
  <2>2. pc'[p] = "open"
    BY <1>1, <1>5 DEF IInv, TypeOK, Version, CURRENT_VERSION
  <2> QED BY <1>2, <1>3, <1>6, <1>7, <2>1, <2>2 DEF IInv, Prepared
<1> QED BY <1>4, <1>5 DEF Version, CURRENT_VERSION

\* Every step of every process keeps it.
LEMMA NextIInv == IInv /\ [Next]_vars => IInv'
<1> SUFFICES ASSUME IInv, [Next]_vars PROVE IInv'
  OBVIOUS
<1> USE DEF CURRENT_VERSION
<1>1. ASSUME NEW p \in Procs, Open(p) \/ Close(p) \/ Crash(p) PROVE IInv'
  <2>1. /\ UNCHANGED <<recorded, schema, at, has, behind>>
        /\ \E s \in {"gate", "closed"} : pc' = [pc EXCEPT ![p] = s]
    BY <1>1 DEF Open, Close, Crash
  <2>2. crashes' \in 0 .. MaxCrashes
    BY <1>1, MigrationsAssumption DEF Open, Close, Crash, IInv, TypeOK
  <2>3. TypeOK'
    BY <2>1, <2>2 DEF IInv, TypeOK
  <2>4. Prepared'
    BY <2>1 DEF IInv, TypeOK, Prepared, Below
  <2>5. Abreast' /\ FailsOnlyBehind'
    BY <2>1 DEF IInv, TypeOK, Abreast, FailsOnlyBehind
  <2> QED BY <2>1, <2>3, <2>4, <2>5 DEF IInv, RecordedIsApplied
<1>2. ASSUME NEW p \in Procs, ReadVersion(p) PROVE IInv'
  <2>1. (1 .. Latest) \subseteq recorded /\ Latest + 1 \in 1 .. CURRENT_VERSION + 1
    BY LatestIs DEF IInv, TypeOK, RecordedIsApplied
  <2>2. Latest + 1 \notin recorded
    BY <2>1, LatestIs DEF IInv, TypeOK, Version
  <2> DEFINE v == Latest + 1
  <2>3. /\ GoTo(p, v) /\ behind' = behind \ {p} /\ recorded' = recorded
        /\ UNCHANGED <<schema, has, crashes>>
    BY <1>2 DEF ReadVersion
  <2>4. recorded' \subseteq Version /\ RecordedIsApplied'
    BY <2>3 DEF IInv, TypeOK, RecordedIsApplied
  <2>5. (1 .. v - 1) \subseteq recorded'
    <3>1. v - 1 = Latest
      BY LatestIs DEF IInv, TypeOK
    <3> QED BY <2>1, <2>3, <3>1
  <2>6. v \in 1 .. CURRENT_VERSION + 1 /\ v \notin recorded'
    BY <2>1, <2>2, <2>3
  <2> HIDE DEF v
  <2> QED BY <2>3, <2>4, <2>5, <2>6, GoToKeeps
<1>3. ASSUME NEW p \in Procs, Inspect(p) PROVE IInv'
  <2>1. TypeOK'
    BY <1>3 DEF Inspect, IInv, TypeOK
  <2>2. Prepared'
    BY <1>3 DEF Inspect, IInv, TypeOK, Prepared, Below
  <2>3. Abreast' /\ FailsOnlyBehind'
    BY <1>3 DEF Inspect, IInv, TypeOK, Abreast, FailsOnlyBehind
  <2> QED BY <1>3, <2>1, <2>2, <2>3 DEF Inspect, IInv, RecordedIsApplied
<1>4. ASSUME NEW p \in Procs, Change(p) PROVE IInv'
  <2>1. at[p] \in Version /\ Below(p)
    BY <1>4 DEF Change, IInv, Prepared
  <2>2. schema \subseteq schema' /\ schema' \subseteq Version /\ at[p] \in schema'
    BY <1>4, <2>1 DEF Change, Effect, IInv, TypeOK, Prepared
  <2>3. TypeOK'
    BY <1>4, <2>2 DEF Change, IInv, TypeOK
  <2>4. RecordedIsApplied'
    BY <1>4, <2>2 DEF Change, IInv, RecordedIsApplied
  <2>5. Prepared'
    BY <1>4, <2>1, <2>2 DEF Change, IInv, TypeOK, Prepared, Below
  <2>6. Abreast' /\ FailsOnlyBehind'
    BY <1>4 DEF Change, IInv, TypeOK, Abreast, FailsOnlyBehind
  <2> QED BY <2>3, <2>4, <2>5, <2>6 DEF IInv
<1>5. ASSUME NEW p \in Procs, AlterFails(p) PROVE IInv'
  <2>1. p \in behind
    BY <1>5 DEF AlterFails, IInv, Abreast
  <2>2. TypeOK' /\ RecordedIsApplied'
    BY <1>5 DEF AlterFails, IInv, TypeOK, RecordedIsApplied
  <2>3. Prepared'
    BY <1>5 DEF AlterFails, IInv, TypeOK, Prepared, Below
  <2>4. Abreast' /\ FailsOnlyBehind'
    BY <1>5, <2>1 DEF AlterFails, IInv, TypeOK, Abreast, FailsOnlyBehind
  <2> QED BY <2>2, <2>3, <2>4 DEF IInv
<1>6. ASSUME NEW p \in Procs, Record(p) PROVE IInv'
  <2>1. at[p] \in Version /\ (1 .. at[p] - 1) \subseteq recorded /\ at[p] \in schema
    BY <1>6 DEF Record, IInv, Prepared, Below
  <2>2. /\ recorded' = recorded \cup {at[p]} /\ recorded' \subseteq Version
        /\ behind' = behind \cup (Procs \ {p}) /\ UNCHANGED <<schema, has, crashes>>
    BY <1>6, <2>1 DEF Record, IInv, TypeOK
  <2>3. (1 .. at[p]) \subseteq recorded' /\ (1 .. at[p]) \subseteq schema
    <3>1. (1 .. at[p] - 1) \subseteq schema
      BY <2>1 DEF IInv, RecordedIsApplied, Version
    <3> QED BY <2>1, <2>2, <3>1 DEF Version
  <2>4. RecordedIsApplied'
    BY <2>2, <2>3 DEF IInv, RecordedIsApplied
  <2>5. CASE at[p] \notin recorded
    <3>1. GoTo(p, at[p] + 1)
      BY <1>6, <2>5 DEF Record
    <3>2. at[p] + 1 \notin recorded'
      BY <2>1, <2>2, <2>5 DEF IInv, TypeOK, RecordedIsApplied, Version
    <3>3. at[p] + 1 \in 1 .. CURRENT_VERSION + 1 /\ (1 .. (at[p] + 1) - 1) \subseteq recorded'
      BY <2>1, <2>3 DEF Version
    <3> DEFINE v == at[p] + 1
    <3>4. /\ GoTo(p, v) /\ v \notin recorded' /\ v \in 1 .. CURRENT_VERSION + 1
          /\ (1 .. v - 1) \subseteq recorded'
      BY <3>1, <3>2, <3>3
    <3> HIDE DEF v
    <3> QED BY <2>2, <2>4, <3>4, GoToKeeps
  <2>6. CASE at[p] \in recorded
    <3>1. pc' = [pc EXCEPT ![p] = "failed"] /\ UNCHANGED <<at, recorded>>
      BY <1>6, <2>2, <2>6 DEF Record
    <3>2. TypeOK'
      BY <2>2, <3>1 DEF IInv, TypeOK
    <3>3. Prepared'
      BY <2>2, <3>1 DEF IInv, TypeOK, Prepared, Below
    <3>4. p \in behind
      BY <1>6, <2>6 DEF Record, IInv, Abreast
    <3>5. behind' = Procs
      BY <2>2, <3>4 DEF IInv, TypeOK
    <3>6. Abreast' /\ FailsOnlyBehind'
      BY <3>5 DEF Abreast, FailsOnlyBehind
    <3> QED BY <2>4, <3>2, <3>3, <3>6 DEF IInv
  <2> QED BY <2>5, <2>6
<1>7. CASE UNCHANGED vars
  BY <1>7 DEF vars, IInv, TypeOK, RecordedIsApplied, Prepared, Below, Abreast, FailsOnlyBehind
<1> QED BY <1>1, <1>2, <1>3, <1>4, <1>5, <1>6, <1>7 DEF Next

\* The inductive invariant holds throughout.
LEMMA SpecIInv == Spec => []IInv
BY InitIInv, NextIInv, PTL DEF Spec

\* No version is recorded before it and all before it are applied, whatever
\* dies or runs beside it (run_migrations).
THEOREM NoVersionAhead == Spec => []RecordedIsApplied
<1>1. IInv => RecordedIsApplied
  BY DEF IInv
<1> QED BY <1>1, SpecIInv, PTL

\* Opening the file fails only for a process that another one overtook.
THEOREM FailureNeedsARace == Spec => []FailsOnlyBehind
<1>1. IInv => FailsOnlyBehind
  BY DEF IInv
<1> QED BY <1>1, SpecIInv, PTL

\* Whoever gets through run_migrations has the whole schema.
THEOREM OpenedStoreIsCurrent == Spec => []OpenIsMigrated
<1>1. IInv => OpenIsMigrated
  <2> SUFFICES ASSUME IInv, NEW p \in Procs, pc[p] = "open" PROVE schema = Version
    BY DEF OpenIsMigrated
  <2>1. recorded = Version
    BY DEF IInv, Prepared
  <2>2. (1 .. 5) \subseteq schema
    BY <2>1 DEF IInv, RecordedIsApplied, Version, CURRENT_VERSION
  <2> QED BY <2>2 DEF IInv, TypeOK, Version, CURRENT_VERSION
<1> QED BY <1>1, SpecIInv, PTL

-----------------------------------------------------------------------------
(* The saves and loads of a review.                                         *)

TurnRow == [review : Reviews, agent : Agents, index : 1 .. TurnCount]

\* A message comes right after its turn or another message of it.
Linked(s, i) ==
  /\ i - 1 \in DOMAIN s /\ s[i - 1].kind \in {"turn", "message"}
  /\ s[i - 1].agent = s[i].agent /\ s[i - 1].index = s[i].index

\* Children of a review: sessions and turns in any order, messages where they belong.
Chains ==
  {s \in Seq(Statement) :
     \A i \in DOMAIN s : s[i].kind # "review" /\ (s[i].kind = "message" => Linked(s, i))}

\* With a session before all the turns.
Children == {s \in Chains : s # <<>> => s[1].kind = "session"}

\* What is left of a save: nothing after the first statement has lost its parent.
Saves ==
  {s \in Seq(Statement) :
     \A i \in DOMAIN s : i # 1 =>
       /\ s[i].kind # "review"
       /\ s[i].kind = "message" => Linked(s, i)
       /\ s[i].kind \in {"turn", "message"} => s[i - 1].kind # "review"}

\* What each kind of statement is about.
LEMMA StatementKinds ==
  ASSUME NEW s \in Statement
  PROVE  /\ s.kind \in {"review", "session", "turn", "message"}
         /\ s.kind = "review" => s.status \in {"Completed", "Failed"}
         /\ s.kind # "review" => s.agent \in Agents
         /\ s.kind \in {"turn", "message"} => s.index \in 1 .. TurnCount
  BY DEF Statement

\* Two chains make a chain.
LEMMA ChainsJoin ==
  ASSUME NEW s \in Chains, NEW t \in Chains
  PROVE  s \o t \in Chains
<1>1. PICK m \in Nat, n \in Nat : m = Len(s) /\ n = Len(t) /\ DOMAIN s = 1 .. m /\ DOMAIN t = 1 .. n
  BY DEF Chains
<1>2. PICK u : u = s \o t
  OBVIOUS
<1>3. /\ u \in Seq(Statement) /\ DOMAIN u = 1 .. m + n
      /\ \A i \in 1 .. m : u[i] = s[i]
      /\ \A i \in 1 .. n : u[m + i] = t[i]
  BY <1>1, <1>2, ConcatProperties DEF Chains
<1>4. ASSUME NEW i \in 1 .. m + n
      PROVE  u[i].kind # "review" /\ (u[i].kind = "message" => Linked(u, i))
  <2>1. CASE i \in 1 .. m
    <3>1. u[i] = s[i] /\ (i - 1 \in 1 .. m => u[i - 1] = s[i - 1])
      BY <1>3, <2>1
    <3>2. i - 1 \in 1 .. m => i - 1 \in 1 .. m + n
      OBVIOUS
    <3>3. s[i].kind # "review" /\ (s[i].kind = "message" => Linked(s, i))
      BY <1>1, <2>1 DEF Chains
    <3>4. Linked(s, i) => Linked(u, i)
      BY <1>1, <1>3, <3>1, <3>2 DEF Linked
    <3> QED
      BY <3>1, <3>3, <3>4
  <2>2. CASE i \notin 1 .. m
    <3>1. PICK j \in 1 .. n : i = m + j
      <4>1. i - m \in 1 .. n /\ i = m + (i - m)
        BY <2>2
      <4> QED
        BY <4>1
    <3>2. u[i] = t[j] /\ t[j].kind # "review"
      BY <1>1, <1>3, <3>1 DEF Chains
    <3>3. ASSUME t[j].kind = "message" PROVE Linked(u, i)
      <4>1. Linked(t, j)
        BY <1>1, <3>3 DEF Chains
      <4>2. j - 1 \in 1 .. n /\ i - 1 = m + (j - 1)
        BY <1>1, <3>1, <4>1 DEF Linked
      <4>3. u[i - 1] = t[j - 1] /\ i - 1 \in 1 .. m + n
        BY <1>3, <4>2
      <4> QED
        BY <1>3, <3>2, <4>1, <4>3 DEF Linked
    <3> QED
      BY <3>2, <3>3
  <2> QED
    BY <2>1, <2>2
<1> QED
  BY <1>2, <1>3, <1>4 DEF Chains

\* So do the children of two agents.
LEMMA ChildrenJoin ==
  ASSUME NEW s \in Children, NEW t \in Chains, s = <<>> => t \in Children
  PROVE  s \o t \in Children
<1>1. s \in Seq(Statement) /\ t \in Seq(Statement) /\ s \o t \in Chains
  BY ChainsJoin DEF Children, Chains
<1>2. CASE s = <<>>
  <2>1. s \o t = t
    BY <1>1, <1>2
  <2> QED
    BY <1>2, <2>1
<1>3. CASE s # <<>>
  <2>1. 1 \in 1 .. Len(s) /\ 1 \in 1 .. Len(s) + Len(t)
    BY <1>1, <1>3
  <2>2. (s \o t)[1] = s[1]
    BY <1>1, <2>1, ConcatProperties
  <2> QED
    BY <1>1, <1>3, <2>2 DEF Children
<1> QED
  BY <1>2, <1>3

\* The statements of nothing.
LEMMA NothingToJoin == <<>> \in Children /\ <<>> \in Chains /\ FlattenSeq(<<>>) = <<>>
<1>1. <<>> \in Seq(Statement) /\ Len(<<>>) = 0 /\ DOMAIN <<>> = {}
  OBVIOUS
<1>2. FlattenSeq(<<>>) = <<>>
  BY <1>1 DEF FlattenSeq
<1> QED
  BY <1>1, <1>2 DEF Children, Chains

\* A turn is followed by its messages.
LEMMA TurnIsChain ==
  ASSUME NEW a \in Agents, NEW i \in 1 .. TurnCount
  PROVE  TurnOf(a, i) \in Chains
<1>1. PICK t : t = [kind |-> "turn", agent |-> a, index |-> i]
  OBVIOUS
<1>2. PICK m : m = [kind |-> "message", agent |-> a, index |-> i]
  OBVIOUS
<1>3. t \in Statement /\ m \in Statement
  BY <1>1, <1>2 DEF Statement
<1>4. PICK s : s = <<t, m>>
  OBVIOUS
<1>5. s \in Seq(Statement) /\ DOMAIN s = 1 .. 2 /\ s[1] = t /\ s[2] = m
  BY <1>3, <1>4
<1>6. \A k \in 1 .. 2 : k = 1 \/ k = 2
  OBVIOUS
<1>7. s[1].kind = "turn" /\ s[2].kind = "message" /\ Linked(s, 2)
  BY <1>1, <1>2, <1>5 DEF Linked
<1>8. s \in Chains
  BY <1>5, <1>6, <1>7 DEF Chains
<1> QED
  BY <1>1, <1>2, <1>4, <1>8 DEF TurnOf

\* A session is followed by its turns.
LEMMA SessionIsChildren ==
  ASSUME NEW a \in Agents
  PROVE  <<[kind |-> "session", agent |-> a]>> \in Children
<1>1. PICK h : h = [kind |-> "session", agent |-> a]
  OBVIOUS
<1>2. h \in Statement /\ h.kind = "session"
  BY <1>1 DEF Statement
<1>3. PICK s : s = <<h>>
  OBVIOUS
<1>4. s \in Seq(Statement) /\ DOMAIN s = 1 .. 1 /\ s[1] = h
  BY <1>2, <1>3
<1> QED
  BY <1>1, <1>2, <1>3, <1>4 DEF Children, Chains

\* The transcript of a review: the sessions of its agents, with their turns.
LEMMA TranscriptIsChildren == Transcript \in Children
<1>1. ASSUME NEW a \in Agents PROVE SessionOf(a) \in Children
  <2>1. PICK q : q = [i \in 1 .. TurnCount |-> TurnOf(a, i)]
    OBVIOUS
  <2>2. TurnCount \in Nat /\ q \in Seq(Chains) /\ Len(q) = TurnCount
    BY <2>1, TurnIsChain, CascadeAssumption
  <2>3. FlattenSeq(q) \in Chains
    <3>1. CASE q = <<>>
      BY <3>1, NothingToJoin
    <3>2. CASE q # <<>>
      BY <2>2, <3>2, ChainsJoin, FlattenIn
    <3> QED
      BY <3>1, <3>2
  <2>4. <<[kind |-> "session", agent |-> a]>> # <<>>
    OBVIOUS
  <2> QED
    BY <2>1, <2>3, <2>4, SessionIsChildren, ChildrenJoin DEF SessionOf
<1>2. PICK q : q = [a \in Agents |-> SessionOf(a)]
  OBVIOUS
<1>3. q \in Seq(Children) /\ q # <<>>
  <2>1. Agents = 1 .. AgentCount /\ AgentCount \in Nat \ {0}
    BY CascadeAssumption DEF Agents
  <2>2. q \in Seq(Children) /\ Len(q) = AgentCount
    BY <1>1, <1>2, <2>1
  <2> QED
    BY <2>1, <2>2
<1>4. \A s, t \in Children : s \o t \in Children
  BY ChildrenJoin DEF Children
<1>5. FlattenSeq(q) \in Children
  BY <1>3, <1>4, FlattenIn
<1> QED
  BY <1>2, <1>5 DEF Transcript

\* A save starts with the row of the review.
LEMMA SaveOfChildren ==
  ASSUME NEW st \in {"Completed", "Failed"}, NEW c \in Children
  PROVE  /\ SaveReview(st, c) \in Saves /\ SaveReview(st, c) # <<>>
         /\ Head(SaveReview(st, c)).kind = "review"
<1>1. PICK h : h = Upsert(st)
  OBVIOUS
<1>2. h \in Statement /\ h.kind = "review"
  BY <1>1 DEF Upsert, Statement
<1>3. PICK n \in Nat : n = Len(c) /\ DOMAIN c = 1 .. n /\ c \in Seq(Statement)
  BY DEF Children, Chains
<1>4. PICK s : s = <<h>> \o c
  OBVIOUS
<1>5. /\ s \in Seq(Statement) /\ DOMAIN s = 1 .. n + 1 /\ s[1] = h
      /\ \A i \in 1 .. n : s[i + 1] = c[i]
  <2>1. <<h>> \in Seq(Statement) /\ Len(<<h>>) = 1 /\ <<h>>[1] = h
    BY <1>2
  <2>2. s \in Seq(Statement) /\ Len(s) = 1 + n
        /\ \A i \in 1 .. Len(s) : s[i] = IF i <= 1 THEN <<h>>[i] ELSE c[i - 1]
    BY <1>3, <1>4, <2>1, ConcatProperties
  <2>3. DOMAIN s = 1 .. n + 1 /\ 1 \in 1 .. n + 1
    BY <2>2
  <2>4. s[1] = h
    BY <2>1, <2>2, <2>3
  <2>5. ASSUME NEW i \in 1 .. n PROVE s[i + 1] = c[i]
    <3>1. i + 1 \in 1 .. Len(s) /\ ~(i + 1 <= 1) /\ (i + 1) - 1 = i
      BY <2>2
    <3> QED
      BY <2>2, <3>1
  <2> QED
    BY <2>2, <2>3, <2>4, <2>5
<1>6. ASSUME NEW i \in 1 .. n + 1, i # 1
      PROVE  /\ s[i].kind # "review"
             /\ s[i].kind = "message" => Linked(s, i)
             /\ s[i].kind \in {"turn", "message"} => s[i - 1].kind # "review"
  <2>1. PICK j \in 1 .. n : i = j + 1
    <3>1. i - 1 \in 1 .. n /\ i = (i - 1) + 1
      BY <1>6
    <3> QED
      BY <3>1
  <2>2. s[i] = c[j] /\ c[j].kind # "review" /\ (c[j].kind = "message" => Linked(c, j))
    BY <1>3, <1>5, <2>1 DEF Children, Chains
  <2>3. j # 1 => j - 1 \in 1 .. n /\ i - 1 = (j - 1) + 1
    BY <2>1
  <2>4. j # 1 => s[i - 1] = c[j - 1] /\ i - 1 \in 1 .. n + 1
    BY <1>5, <2>3
  <2>5. j = 1 => c[j].kind = "session"
    <3>1. c # <<>>
      BY <1>3, <2>1
    <3> QED
      BY <3>1 DEF Children
  <2>6. j # 1 => c[j - 1].kind # "review"
    BY <1>3, <2>3 DEF Children, Chains
  <2>7. c[j].kind = "message" => Linked(s, i)
    BY <1>5, <2>2, <2>4, <2>5 DEF Linked
  <2> QED
    BY <2>2, <2>4, <2>5, <2>6, <2>7
<1>7. s \in Saves
  BY <1>5, <1>6 DEF Saves
<1>8. s # <<>> /\ Head(s) = h
  BY <1>5
<1> QED
  BY <1>1, <1>2, <1>4, <1>7, <1>8 DEF SaveReview

-----------------------------------------------------------------------------
\* The types, with the statements of a save and what a load has read in their order.
TablesAreTyped ==
  /\ status \in [Reviews -> {"Running", "Completed", "Failed"}]
  /\ session \in [Reviews -> {0} \cup Agents]
  /\ turns \in Seq(TurnRow)
  /\ messages \in Seq([turn : Nat, agent : Agents, index : 1 .. TurnCount])
  /\ \A j \in DOMAIN messages : messages[j].turn \in DOMAIN turns

WritersAreTyped ==
  /\ active \subseteq Reviews
  /\ job \in [Reviews -> {"working", "saving", "marking", "done"}]
  /\ todo \in [Writers -> Saves]
  /\ review \in [Writers -> Reviews]
  /\ parent \in [Writers -> Nat]
  /\ \A w \in Writers : parent[w] \in {0} \cup DOMAIN turns
  /\ errors \in 0 .. MaxErrors

\* A load has the session before its turns.
LoadsAreTyped ==
  /\ load \in [Loads -> [pc : {"idle", "sessions", "turns", "messages", "check", "save"},
                         status : {"Running", "Completed", "Failed"}, whole : BOOLEAN,
                         queue : Seq(Nat), read : Children]]
  /\ \A p \in Loads :
       /\ load[p].pc \in {"turns", "messages"} => load[p].read # <<>>
       /\ \A k \in DOMAIN load[p].queue : load[p].queue[k] \in DOMAIN turns

\* The statement a writer is at has its parent: a message the turn it inserted
\* last, a turn a session, a session a review that has ended.
HasItsParent(w) ==
  todo[w] # <<>> =>
    LET s == Head(todo[w]) IN
    /\ s.kind = "message" =>
         /\ parent[w] \in DOMAIN turns
         /\ turns[parent[w]].agent = s.agent /\ turns[parent[w]].index = s.index
    /\ s.kind \in {"turn", "message"} => session[review[w]] # 0
    /\ s.kind = "session" => status[review[w]] # "Running"

NextHasItsParent == \A w \in Writers : HasItsParent(w)

UnderTheirTurn ==
  \A j \in DOMAIN messages :
    LET t == messages[j].turn IN
    turns[t].agent = messages[j].agent /\ turns[t].index = messages[j].index

ChildrenHaveParents ==
  /\ \A r \in Reviews : session[r] # 0 => status[r] # "Running"
  /\ \A i \in DOMAIN turns : session[turns[i].review] # 0

CascadeInv ==
  /\ TablesAreTyped /\ WritersAreTyped /\ LoadsAreTyped
  /\ NextHasItsParent /\ UnderTheirTurn /\ ChildrenHaveParents

\* A writer may have nothing left to write.
LEMMA NothingLeft == <<>> \in Saves
<1>1. <<>> \in Seq(Statement) /\ DOMAIN <<>> = {}
  OBVIOUS
<1> QED
  BY <1>1 DEF Saves

\* The empty database, before any job runs.
LEMMA CascadeStarts == CascadeInit => CascadeInv
<1> SUFFICES ASSUME CascadeInit PROVE CascadeInv
  OBVIOUS
<1>1. turns = <<>> /\ messages = <<>> /\ <<>> \in Seq(TurnRow) /\ DOMAIN <<>> = {}
      /\ <<>> \in Seq([turn : Nat, agent : Agents, index : 1 .. TurnCount]) /\ <<>> \in Seq(Nat)
  BY DEF CascadeInit
<1>2. TablesAreTyped
  BY <1>1 DEF CascadeInit, TablesAreTyped
<1>3. WritersAreTyped
  BY <1>1, NothingLeft, CascadeAssumption DEF CascadeInit, WritersAreTyped
<1>4. NoLoad \in [pc : {"idle", "sessions", "turns", "messages", "check", "save"},
                  status : {"Running", "Completed", "Failed"}, whole : BOOLEAN,
                  queue : Seq(Nat), read : Children]
  BY <1>1, NothingToJoin DEF NoLoad
<1>5. LoadsAreTyped
  BY <1>1, <1>4 DEF CascadeInit, LoadsAreTyped, NoLoad
<1>6. NextHasItsParent /\ UnderTheirTurn /\ ChildrenHaveParents
  BY <1>1 DEF CascadeInit, NextHasItsParent, HasItsParent, UnderTheirTurn, ChildrenHaveParents
<1> QED
  BY <1>2, <1>3, <1>5, <1>6 DEF CascadeInv

\* What is left of a save once its first statement is executed.
LEMMA RestOfSave ==
  ASSUME NEW s \in Saves, s # <<>>
  PROVE  /\ Head(s) \in Statement /\ Tail(s) \in Saves
         /\ Tail(s) # <<>> =>
              LET t == Head(Tail(s)) IN
              /\ t \in Statement /\ t.kind # "review"
              /\ t.kind = "message" => /\ Head(s).kind \in {"turn", "message"}
                                       /\ Head(s).agent = t.agent /\ Head(s).index = t.index
              /\ t.kind \in {"turn", "message"} => Head(s).kind # "review"
<1>1. PICK n \in Nat \ {0} : n = Len(s) /\ DOMAIN s = 1 .. n /\ s \in Seq(Statement)
  BY DEF Saves
<1>2. PICK u : u = Tail(s)
  OBVIOUS
<1>3. /\ u \in Seq(Statement) /\ DOMAIN u = 1 .. n - 1 /\ Len(u) = n - 1
      /\ \A i \in 1 .. n - 1 : u[i] = s[i + 1]
  BY <1>1, <1>2
<1>4. Head(s) = s[1] /\ s[1] \in Statement
  BY <1>1
<1>5. ASSUME NEW i \in 1 .. n - 1, i # 1
      PROVE  /\ u[i].kind # "review"
             /\ u[i].kind = "message" => Linked(u, i)
             /\ u[i].kind \in {"turn", "message"} => u[i - 1].kind # "review"
  <2>1. u[i] = s[i + 1] /\ i + 1 \in 1 .. n /\ i + 1 # 1 /\ (i + 1) - 1 = i
    BY <1>3
  <2>2. i - 1 \in 1 .. n - 1 /\ u[i - 1] = s[i] /\ (i - 1) + 1 = i
    BY <1>3, <1>5
  <2>3. /\ s[i + 1].kind # "review"
        /\ s[i + 1].kind = "message" => Linked(s, i + 1)
        /\ s[i + 1].kind \in {"turn", "message"} => s[i].kind # "review"
    BY <1>1, <2>1 DEF Saves
  <2>4. Linked(s, i + 1) => Linked(u, i)
    BY <1>3, <2>1, <2>2 DEF Linked
  <2> QED
    BY <2>1, <2>2, <2>3, <2>4
<1>6. u \in Saves
  BY <1>3, <1>5 DEF Saves
<1>7. ASSUME u # <<>>
      PROVE  /\ Head(u) = s[2] /\ s[2] \in Statement /\ s[2].kind # "review"
             /\ s[2].kind = "message" => /\ s[1].kind \in {"turn", "message"}
                                         /\ s[1].agent = s[2].agent /\ s[1].index = s[2].index
             /\ s[2].kind \in {"turn", "message"} => s[1].kind # "review"
  <2>1. 2 \in 1 .. n /\ 1 \in 1 .. n - 1 /\ 2 # 1 /\ 2 - 1 = 1 /\ 1 + 1 = 2
    <3>1. n # 1
      BY <1>3, <1>7
    <3> QED
      BY <3>1
  <2>2. /\ s[2].kind # "review"
        /\ s[2].kind = "message" => Linked(s, 2)
        /\ s[2].kind \in {"turn", "message"} => s[1].kind # "review"
    BY <1>1, <2>1 DEF Saves
  <2>3. Head(u) = s[2] /\ s[2] \in Statement
    BY <1>1, <1>3, <1>7, <2>1
  <2> QED
    BY <2>1, <2>2, <2>3 DEF Linked
<1> QED
  BY <1>2, <1>4, <1>6, <1>7

-----------------------------------------------------------------------------
\* The tables only grow, and what ended or has a session stays so.
TablesGrow ==
  /\ \A r \in Reviews : status[r] # "Running" => status'[r] # "Running"
  /\ \A r \in Reviews : session[r] # 0 => session'[r] # 0
  /\ \A i \in DOMAIN turns : i \in DOMAIN turns' /\ turns'[i] = turns[i]

\* A writer that inserts takes nothing from what the others are about to write.
LEMMA OthersHaveTheirs ==
  ASSUME CascadeInv, TablesGrow, NEW v \in Writers, UNCHANGED review, todo'[v] = todo[v],
         parent'[v] = parent[v]
  PROVE  HasItsParent(v)'
<1>1. HasItsParent(v) /\ review[v] \in Reviews
  BY DEF CascadeInv, NextHasItsParent, WritersAreTyped
<1> QED
  BY <1>1 DEF HasItsParent, TablesGrow

\* A writer executes a statement.
LEMMA StatementStep ==
  ASSUME CascadeInv, NEW w \in Writers, todo[w] # <<>>, todo' = [todo EXCEPT ![w] = Tail(@)],
         UNCHANGED <<active, job, review, load, errors>>, TablesAreTyped', TablesGrow,
         parent' \in [Writers -> Nat], \A v \in Writers \ {w} : parent'[v] = parent[v],
         parent'[w] \in {0} \cup DOMAIN turns',
         HasItsParent(w)', UnderTheirTurn', ChildrenHaveParents'
  PROVE  CascadeInv'
<1>1. \A v \in Writers \ {w} : todo'[v] = todo[v]
  BY DEF CascadeInv, WritersAreTyped
<1>2. todo[w] \in Saves /\ todo \in [Writers -> Saves]
  BY DEF CascadeInv, WritersAreTyped
<1>3. Tail(todo[w]) \in Saves
  BY <1>2, RestOfSave
<1>4. todo' \in [Writers -> Saves]
  BY <1>2, <1>3
<1>5. \A v \in Writers : parent'[v] \in {0} \cup DOMAIN turns'
  BY DEF CascadeInv, WritersAreTyped, TablesGrow
<1>6. WritersAreTyped'
  BY <1>4, <1>5 DEF CascadeInv, WritersAreTyped
<1>7. LoadsAreTyped'
  BY DEF CascadeInv, LoadsAreTyped, TablesGrow
<1>8. NextHasItsParent'
  BY <1>1, OthersHaveTheirs DEF NextHasItsParent
<1> QED
  BY <1>6, <1>7, <1>8 DEF CascadeInv

\* One statement of a save.
LEMMA ExecuteStep ==
  ASSUME CascadeInv, NEW w \in Writers, Execute(w)
  PROVE  CascadeInv'
<1>1. /\ todo[w] # <<>> /\ todo' = [todo EXCEPT ![w] = Tail(@)]
      /\ UNCHANGED <<active, job, review, load, errors>>
  BY DEF Execute
<1>2. PICK r \in Reviews : r = review[w]
  BY DEF CascadeInv, WritersAreTyped
<1>3. todo[w] \in Saves /\ todo'[w] = Tail(todo[w]) /\ parent \in [Writers -> Nat]
  BY <1>1 DEF CascadeInv, WritersAreTyped
<1>4. PICK s \in Statement : s = Head(todo[w])
  BY <1>1, <1>3, RestOfSave
<1>5. /\ s.kind \in {"review", "session", "turn", "message"}
      /\ s.kind = "review" => s.status \in {"Completed", "Failed"}
      /\ s.kind # "review" => s.agent \in Agents
      /\ s.kind \in {"turn", "message"} => s.index \in 1 .. TurnCount
  BY StatementKinds
<1>6. PICK u : u = Tail(todo[w])
  OBVIOUS
<1>7. u # <<>> =>
        LET t == Head(u) IN
        /\ t \in Statement /\ t.kind # "review"
        /\ t.kind = "message" => /\ s.kind \in {"turn", "message"}
                                 /\ s.agent = t.agent /\ s.index = t.index
        /\ t.kind \in {"turn", "message"} => s.kind # "review"
  BY <1>1, <1>3, <1>4, <1>6, RestOfSave
<1>8. /\ s.kind = "message" =>
           /\ parent[w] \in DOMAIN turns
           /\ turns[parent[w]].agent = s.agent /\ turns[parent[w]].index = s.index
      /\ s.kind \in {"turn", "message"} => session[r] # 0
      /\ s.kind = "session" => status[r] # "Running"
  BY <1>1, <1>2, <1>4 DEF CascadeInv, NextHasItsParent, HasItsParent
<1>9. TablesAreTyped /\ UnderTheirTurn /\ ChildrenHaveParents
  BY DEF CascadeInv
<1>10. \A v \in Writers : parent[v] \in {0} \cup DOMAIN turns
  BY DEF CascadeInv, WritersAreTyped
<1>11. CASE s.kind = "review" /\ UpsertReview(r, s)
  <2>1. /\ status' = [status EXCEPT ![r] = s.status]
        /\ UNCHANGED <<session, turns, messages, parent>>
    BY <1>11 DEF UpsertReview
  <2>2. TablesAreTyped' /\ TablesGrow
    BY <1>5, <1>9, <1>11, <2>1 DEF TablesAreTyped, TablesGrow
  <2>3. status'[r] # "Running"
    BY <1>5, <1>9, <1>11, <2>1 DEF TablesAreTyped
  <2>4. HasItsParent(w)'
    BY <1>1, <1>2, <1>3, <1>6, <1>7, <1>11, <2>3 DEF HasItsParent
  <2>5. UnderTheirTurn' /\ ChildrenHaveParents'
    BY <1>9, <2>1, <2>2 DEF UnderTheirTurn, ChildrenHaveParents, TablesGrow
  <2> QED
    BY <1>1, <1>3, <1>10, <2>1, <2>2, <2>4, <2>5, StatementStep
<1>12. CASE s.kind = "session" /\ UpsertSession(r, s)
  <2>1. /\ session' = [session EXCEPT ![r] = s.agent]
        /\ UNCHANGED <<status, turns, messages, parent>>
    BY <1>12 DEF UpsertSession
  <2>2. s.agent \in Agents /\ s.agent # 0
    BY <1>5, <1>12 DEF Agents
  <2>3. TablesAreTyped' /\ TablesGrow /\ session'[r] # 0
    BY <1>9, <2>1, <2>2 DEF TablesAreTyped, TablesGrow
  <2>4. HasItsParent(w)'
    BY <1>1, <1>2, <1>3, <1>6, <1>7, <1>8, <1>12, <2>1, <2>3 DEF HasItsParent
  <2>5. ChildrenHaveParents'
    <3>1. \A q \in Reviews : session'[q] # 0 => status'[q] # "Running"
      BY <1>8, <1>9, <1>12, <2>1 DEF ChildrenHaveParents, TablesAreTyped
    <3>2. \A i \in DOMAIN turns : turns[i].review \in Reviews
      <4>1. \A i \in DOMAIN turns : turns[i] \in TurnRow
        BY <1>9 DEF TablesAreTyped
      <4> QED
        BY <4>1 DEF TurnRow
    <3>3. \A i \in DOMAIN turns' : session'[turns'[i].review] # 0
      BY <1>9, <2>1, <2>3, <3>2 DEF ChildrenHaveParents, TablesGrow
    <3> QED
      BY <3>1, <3>3 DEF ChildrenHaveParents
  <2>6. UnderTheirTurn'
    BY <1>9, <2>1 DEF UnderTheirTurn
  <2> QED
    BY <1>1, <1>3, <1>10, <2>1, <2>3, <2>4, <2>5, <2>6, StatementStep
<1>13. CASE s.kind = "turn" /\ InsertTurn(w, s)
  <2>1. PICK rec : rec = [review |-> r, agent |-> s.agent, index |-> s.index]
    OBVIOUS
  <2>2. rec \in TurnRow /\ rec.review = r /\ rec.agent = s.agent /\ rec.index = s.index
    BY <1>5, <1>13, <2>1 DEF TurnRow
  <2>3. /\ turns' = Append(turns, rec) /\ parent' = [parent EXCEPT ![w] = Len(turns')]
        /\ UNCHANGED <<status, session, messages>>
    BY <1>2, <1>13, <2>1 DEF InsertTurn
  <2>4. PICK n \in Nat : n = Len(turns) /\ DOMAIN turns = 1 .. n /\ turns \in Seq(TurnRow)
    BY <1>9 DEF TablesAreTyped
  <2>5. /\ turns' \in Seq(TurnRow) /\ Len(turns') = n + 1 /\ DOMAIN turns' = 1 .. n + 1
        /\ turns'[n + 1] = rec /\ \A i \in 1 .. n : turns'[i] = turns[i]
    BY <2>2, <2>3, <2>4
  <2>6. TablesGrow
    BY <2>3, <2>4, <2>5 DEF TablesGrow
  <2>7. TablesAreTyped'
    BY <1>9, <2>3, <2>4, <2>5 DEF TablesAreTyped
  <2>8. parent'[w] = n + 1 /\ parent' \in [Writers -> Nat]
        /\ \A v \in Writers \ {w} : parent'[v] = parent[v]
    BY <1>3, <2>3, <2>5
  <2>9. status[r] # "Running" /\ session[r] # 0
    BY <1>8, <1>9, <1>13 DEF ChildrenHaveParents
  <2>10. n + 1 \in DOMAIN turns'
    BY <2>5
  <2>11. HasItsParent(w)'
    BY ZenonT(40), <1>1, <1>2, <1>3, <1>6, <1>7, <1>13, <2>2, <2>3, <2>5, <2>8, <2>9, <2>10 DEF HasItsParent
  <2>12. ChildrenHaveParents'
    <3>1. ASSUME NEW i \in 1 .. n + 1 PROVE session[turns'[i].review] # 0
      <4>1. CASE i = n + 1
        BY <2>2, <2>5, <2>9, <4>1
      <4>2. CASE i \in 1 .. n
        BY <1>9, <2>4, <2>5, <4>2 DEF ChildrenHaveParents
      <4> QED
        BY <4>1, <4>2
    <3> QED
      BY <1>9, <2>3, <2>5, <3>1 DEF ChildrenHaveParents
  <2>13. UnderTheirTurn'
    <3>1. \A j \in DOMAIN messages : messages[j].turn \in 1 .. n
      BY <1>9, <2>4 DEF TablesAreTyped
    <3> QED
      BY <1>9, <2>3, <2>5, <3>1 DEF UnderTheirTurn
  <2> QED
    BY <1>1, <2>6, <2>7, <2>8, <2>10, <2>11, <2>12, <2>13, StatementStep
<1>14. CASE s.kind = "message" /\ InsertMessage(w, s)
  <2>1. PICK m : m = [turn |-> parent[w], agent |-> s.agent, index |-> s.index]
    OBVIOUS
  <2>2. PICK Row : Row = [turn : Nat, agent : Agents, index : 1 .. TurnCount]
    OBVIOUS
  <2>3. m \in Row /\ m.turn = parent[w] /\ m.agent = s.agent /\ m.index = s.index
    BY <1>3, <1>5, <1>14, <2>1, <2>2
  <2>4. messages' = Append(messages, m) /\ UNCHANGED <<status, session, turns, parent>>
    BY <1>14, <2>1 DEF InsertMessage
  <2>5. PICK n \in Nat : n = Len(messages) /\ DOMAIN messages = 1 .. n /\ messages \in Seq(Row)
    BY <1>9, <2>2 DEF TablesAreTyped
  <2>6. /\ messages' \in Seq(Row) /\ DOMAIN messages' = 1 .. n + 1
        /\ messages'[n + 1] = m /\ \A j \in 1 .. n : messages'[j] = messages[j]
    BY <2>3, <2>4, <2>5
  <2>7. TablesGrow
    BY <2>4 DEF TablesGrow
  <2>8. ASSUME NEW j \in 1 .. n + 1
        PROVE  /\ messages'[j].turn \in DOMAIN turns
               /\ turns[messages'[j].turn].agent = messages'[j].agent
               /\ turns[messages'[j].turn].index = messages'[j].index
    <3>1. CASE j = n + 1
      BY <1>8, <1>14, <2>3, <2>6, <3>1
    <3>2. CASE j \in 1 .. n
      BY <1>9, <2>5, <2>6, <3>2 DEF TablesAreTyped, UnderTheirTurn
    <3> QED
      BY <3>1, <3>2
  <2>9. TablesAreTyped'
    BY <1>9, <2>2, <2>4, <2>6, <2>8 DEF TablesAreTyped
  <2>10. UnderTheirTurn'
    BY <2>4, <2>6, <2>8 DEF UnderTheirTurn
  <2>11. ChildrenHaveParents'
    BY <1>9, <2>4 DEF ChildrenHaveParents
  <2>12. status[r] # "Running"
    BY <1>8, <1>9, <1>14 DEF ChildrenHaveParents
  <2>13. HasItsParent(w)'
    BY <1>1, <1>2, <1>3, <1>6, <1>7, <1>8, <1>14, <2>4, <2>12 DEF HasItsParent
  <2> QED
    BY <1>1, <1>3, <1>10, <2>4, <2>7, <2>9, <2>10, <2>11, <2>13, StatementStep
<1> QED
  BY <1>2, <1>4, <1>11, <1>12, <1>13, <1>14 DEF Execute

\* A writer starts on other statements, or gives up.
LEMMA WriterSteps ==
  ASSUME CascadeInv, NEW w \in Writers, NEW s \in Saves, todo' = [todo EXCEPT ![w] = s],
         s # <<>> => Head(s).kind = "review",
         UNCHANGED <<tables, review, parent>>, active' \subseteq Reviews,
         job' \in [Reviews -> {"working", "saving", "marking", "done"}],
         errors' \in 0 .. MaxErrors, LoadsAreTyped'
  PROVE  CascadeInv'
<1>1. UNCHANGED <<status, session, turns, messages>>
  BY DEF tables
<1>2. todo' \in [Writers -> Saves] /\ todo'[w] = s /\ \A v \in Writers \ {w} : todo'[v] = todo[v]
  BY DEF CascadeInv, WritersAreTyped
<1>3. TablesGrow
  BY <1>1 DEF TablesGrow
<1>4. TablesAreTyped' /\ UnderTheirTurn' /\ ChildrenHaveParents'
  BY <1>1 DEF CascadeInv, TablesAreTyped, UnderTheirTurn, ChildrenHaveParents
<1>5. WritersAreTyped'
  BY <1>1, <1>2 DEF CascadeInv, WritersAreTyped
<1>6. HasItsParent(w)'
  BY <1>2 DEF HasItsParent
<1>7. NextHasItsParent'
  BY <1>2, <1>3, <1>6, OthersHaveTheirs DEF NextHasItsParent
<1> QED
  BY <1>4, <1>5, <1>7 DEF CascadeInv

\* A load reads on, or is answered.
LEMMA LoadKeeps ==
  ASSUME CascadeInv, UNCHANGED <<tables, active, job, todo, review, parent, errors>>, LoadsAreTyped'
  PROVE  CascadeInv'
<1>1. UNCHANGED <<status, session, turns, messages>>
  BY DEF tables
<1> QED
  BY <1>1 DEF CascadeInv, TablesAreTyped, WritersAreTyped, UnderTheirTurn, ChildrenHaveParents,
              NextHasItsParent, HasItsParent

LoadRecord ==
  [pc : {"idle", "sessions", "turns", "messages", "check", "save"},
   status : {"Running", "Completed", "Failed"}, whole : BOOLEAN,
   queue : Seq(Nat), read : Children]

\* The load of one page changes.
LEMMA OneLoad ==
  ASSUME CascadeInv, NEW p \in Loads, NEW l \in LoadRecord, load' = [load EXCEPT ![p] = l],
         UNCHANGED turns, l.pc \in {"turns", "messages"} => l.read # <<>>,
         \A k \in DOMAIN l.queue : l.queue[k] \in DOMAIN turns
  PROVE  LoadsAreTyped'
<1>1. load \in [Loads -> LoadRecord]
  BY DEF CascadeInv, LoadsAreTyped, LoadRecord
<1>2. load' \in [Loads -> LoadRecord] /\ load'[p] = l /\ \A q \in Loads \ {p} : load'[q] = load[q]
  BY <1>1
<1>3. ASSUME NEW q \in Loads
      PROVE  /\ load'[q].pc \in {"turns", "messages"} => load'[q].read # <<>>
             /\ \A k \in DOMAIN load'[q].queue : load'[q].queue[k] \in DOMAIN turns'
  BY <1>2 DEF CascadeInv, LoadsAreTyped
<1> QED
  BY <1>2, <1>3 DEF LoadsAreTyped, LoadRecord

\* A load reads the row of its review.
LEMMA LoadRowStep ==
  ASSUME CascadeInv, NEW p \in Loads, LoadRow(p)
  PROVE  CascadeInv'
<1>1. PICK r \in Reviews : r = review[p]
  BY DEF CascadeInv, WritersAreTyped, Writers
<1>2. PICK b : b = (status[r] = "Completed" /\ todo[r] = <<>> /\ errors = 0)
  OBVIOUS
<1>3. b \in BOOLEAN
  BY <1>2
<1>4. PICK l : l = [NoLoad EXCEPT !.pc = "sessions", !.status = status[r], !.whole = b]
  OBVIOUS
<1>5. /\ load' = [load EXCEPT ![p] = l]
      /\ UNCHANGED <<tables, active, job, todo, review, parent, errors>>
  BY <1>1, <1>2, <1>4 DEF LoadRow
<1>6. status[r] \in {"Running", "Completed", "Failed"}
  BY DEF CascadeInv, TablesAreTyped
<1>7. l = [pc |-> "sessions", status |-> status[r], whole |-> b, queue |-> <<>>, read |-> <<>>]
  BY <1>4 DEF NoLoad
<1>8. l \in LoadRecord /\ l.pc = "sessions" /\ DOMAIN l.queue = {}
  <2>1. <<>> \in Seq(Nat) /\ <<>> \in Children /\ DOMAIN <<>> = {}
    BY NothingToJoin
  <2> QED
    BY <1>3, <1>6, <1>7, <2>1 DEF LoadRecord
<1>9. UNCHANGED turns
  BY <1>5 DEF tables
<1>10. LoadsAreTyped'
  BY <1>5, <1>8, <1>9, OneLoad
<1> QED
  BY <1>5, <1>10, LoadKeeps

\* A load reads the session.
LEMMA LoadSessionsStep ==
  ASSUME CascadeInv, NEW p \in Loads, LoadSessions(p)
  PROVE  CascadeInv'
<1>1. PICK r \in Reviews : r = review[p]
  BY DEF CascadeInv, WritersAreTyped, Writers
<1>2. PICK a : a = session[r]
  OBVIOUS
<1>3. a \in {0} \cup Agents
  BY <1>2 DEF CascadeInv, TablesAreTyped
<1>4. PICK c : c = IF a = 0 THEN <<>> ELSE <<[kind |-> "session", agent |-> a]>>
  OBVIOUS
<1>5. c \in Children /\ (a # 0 => c # <<>>)
  BY <1>3, <1>4, SessionIsChildren, NothingToJoin
<1>6. PICK stop : stop = IF a = 0 THEN "check" ELSE "turns"
  OBVIOUS
<1>7. load[p] \in LoadRecord
  BY DEF CascadeInv, LoadsAreTyped, LoadRecord
<1>8. PICK l : l = [load[p] EXCEPT !.pc = stop, !.read = c]
  OBVIOUS
<1>9. l \in LoadRecord /\ l.pc = stop /\ l.read = c /\ l.queue = load[p].queue
  BY <1>5, <1>6, <1>7, <1>8 DEF LoadRecord
<1>10. /\ load' = [load EXCEPT ![p] = l]
       /\ UNCHANGED <<tables, active, job, todo, review, parent, errors>>
  BY <1>1, <1>2, <1>4, <1>6, <1>7, <1>8 DEF LoadSessions, CascadeInv, LoadsAreTyped
<1>11. \A k \in DOMAIN l.queue : l.queue[k] \in DOMAIN turns
  BY <1>9 DEF CascadeInv, LoadsAreTyped
<1>12. UNCHANGED turns
  BY <1>10 DEF tables
<1>13. LoadsAreTyped'
  BY <1>5, <1>6, <1>9, <1>10, <1>11, <1>12, OneLoad
<1> QED
  BY <1>10, <1>13, LoadKeeps

\* A load reads the turns.
LEMMA LoadTurnsStep ==
  ASSUME CascadeInv, NEW p \in Loads, LoadTurns(p)
  PROVE  CascadeInv'
<1>1. PICK n \in Nat : DOMAIN turns = 1 .. n
  BY DEF CascadeInv, TablesAreTyped
<1>2. PICK I : I = {i \in DOMAIN turns : turns[i].review = review[p]}
  OBVIOUS
<1>3. PICK q : q = Picked([i \in DOMAIN turns |-> i], I)
  OBVIOUS
<1>4. q \in Seq(Nat) /\ \A k \in DOMAIN q : q[k] \in I
  <2>1. I \in SUBSET (1 .. n)
    BY <1>1, <1>2
  <2>2. q \in Seq(1 .. n) /\ ToSet(q) = I
    BY <1>1, <1>3, <2>1, PlacesInOrder
  <2>3. \A k \in DOMAIN q : q[k] \in ToSet(q)
    BY <2>2 DEF ToSet
  <2> QED
    BY <2>2, <2>3
<1>5. load[p] \in LoadRecord /\ load[p].pc = "turns" /\ load[p].read # <<>>
  BY DEF CascadeInv, LoadsAreTyped, LoadRecord, LoadTurns
<1>6. PICK l : l = [load[p] EXCEPT !.pc = "messages", !.queue = q]
  OBVIOUS
<1>7. l \in LoadRecord /\ l.read # <<>> /\ l.queue = q
  BY <1>4, <1>5, <1>6 DEF LoadRecord
<1>8. /\ load' = [load EXCEPT ![p] = l]
      /\ UNCHANGED <<tables, active, job, todo, review, parent, errors>>
  BY <1>2, <1>3, <1>5, <1>6 DEF LoadTurns, CascadeInv, LoadsAreTyped
<1>9. UNCHANGED turns
  BY <1>8 DEF tables
<1>10. \A k \in DOMAIN l.queue : l.queue[k] \in DOMAIN turns
  BY <1>2, <1>4, <1>7
<1>11. LoadsAreTyped'
  BY <1>7, <1>8, <1>9, <1>10, OneLoad
<1> QED
  BY <1>8, <1>11, LoadKeeps

\* A turn and what was said in it are a chain.
LEMMA TurnWithMessages ==
  ASSUME CascadeInv, NEW i \in DOMAIN turns, NEW t, NEW ms, NEW said,
         t = [kind |-> "turn", agent |-> turns[i].agent, index |-> turns[i].index],
         ms = Under(i),
         said = [k \in DOMAIN ms |-> [kind |-> "message", agent |-> ms[k].agent, index |-> ms[k].index]]
  PROVE  <<t>> \o said \in Chains /\ said \in Seq(Statement) /\ t \in Statement
<1>1. PICK Row : Row = [turn : Nat, agent : Agents, index : 1 .. TurnCount]
  OBVIOUS
<1>2. messages \in Seq(Row)
  BY <1>1 DEF CascadeInv, TablesAreTyped
<1>3. PICK J : J = {j \in DOMAIN messages : messages[j].turn = i}
  OBVIOUS
<1>4. J \cap DOMAIN messages = J /\ ms = Picked(messages, J)
  BY <1>3 DEF Under
<1>5. ms \in Seq(Row) /\ Enumerates(ms, messages, J)
  BY <1>2, <1>4, PickedPlaces
<1>6. PICK n \in Nat : n = Len(ms) /\ DOMAIN ms = 1 .. n
  BY <1>5
<1>7. PICK f \in [1 .. n -> J] : \A k \in 1 .. n : ms[k] = messages[f[k]]
  BY <1>5, <1>6 DEF Enumerates
<1>8. turns[i] \in TurnRow
  BY DEF CascadeInv, TablesAreTyped
<1>9. PICK a, x : a = turns[i].agent /\ x = turns[i].index
  OBVIOUS
<1>10. a \in Agents /\ x \in 1 .. TurnCount
  BY <1>8, <1>9 DEF TurnRow
<1>11. ASSUME NEW k \in 1 .. n
       PROVE  said[k] = [kind |-> "message", agent |-> a, index |-> x]
  <2>1. PICK j \in DOMAIN messages : messages[j].turn = i /\ ms[k] = messages[j]
    BY <1>3, <1>7
  <2>2. ms[k].agent = a /\ ms[k].index = x
    BY <1>9, <2>1 DEF CascadeInv, UnderTheirTurn
  <2> QED
    BY <1>6, <2>2
<1>12. PICK m : m = [kind |-> "message", agent |-> a, index |-> x]
  OBVIOUS
<1>13. /\ t \in Statement /\ t.kind = "turn" /\ t.agent = a /\ t.index = x
       /\ m \in Statement /\ m.kind = "message" /\ m.agent = a /\ m.index = x
  BY <1>9, <1>10, <1>12 DEF Statement
<1>14. said \in Seq(Statement) /\ Len(said) = n /\ \A k \in 1 .. n : said[k] = m
  BY <1>6, <1>11, <1>12, <1>13
<1>15. PICK s : s = <<t>> \o said
  OBVIOUS
<1>16. /\ s \in Seq(Statement) /\ DOMAIN s = 1 .. n + 1 /\ s[1] = t
       /\ \A k \in 2 .. n + 1 : s[k] = m
  <2>1. <<t>> \in Seq(Statement) /\ Len(<<t>>) = 1 /\ <<t>>[1] = t
    BY <1>13
  <2>2. s \in Seq(Statement) /\ Len(s) = 1 + n
        /\ \A k \in 1 .. Len(s) : s[k] = IF k <= 1 THEN <<t>>[k] ELSE said[k - 1]
    BY <1>14, <1>15, <2>1, ConcatProperties
  <2>3. s[1] = t
    BY <2>1, <2>2
  <2>4. \A k \in 2 .. n + 1 : s[k] = m
    <3> TAKE k \in 2 .. n + 1
    <3>1. k \in 1 .. Len(s) /\ ~(k <= 1) /\ k - 1 \in 1 .. n
      BY <2>2
    <3> QED
      BY <1>14, <2>2, <3>1
  <2> QED
    BY <2>2, <2>3, <2>4
<1>17. ASSUME NEW k \in 1 .. n + 1
       PROVE  s[k].kind # "review" /\ (s[k].kind = "message" => Linked(s, k))
  <2>1. CASE k = 1
    BY <1>13, <1>16, <2>1
  <2>2. CASE k = 2
    <3>1. s[2] = m /\ s[1] = t /\ 2 - 1 \in DOMAIN s /\ 2 - 1 = 1
      BY <1>16, <2>2
    <3> QED
      BY <1>13, <2>2, <3>1 DEF Linked
  <2>3. CASE k \notin {1, 2}
    <3>1. k \in 2 .. n + 1 /\ k - 1 \in 2 .. n + 1 /\ k - 1 \in DOMAIN s
      BY <1>16, <2>3
    <3>2. s[k] = m /\ s[k - 1] = m
      BY <1>16, <3>1
    <3> QED
      BY <1>13, <3>1, <3>2 DEF Linked
  <2> QED
    BY <2>1, <2>2, <2>3
<1>18. s \in Chains
  BY <1>16, <1>17 DEF Chains
<1> QED
  BY <1>13, <1>14, <1>15, <1>18

\* A load reads the messages.
LEMMA LoadMessagesStep ==
  ASSUME CascadeInv, NEW p \in Loads, LoadMessages(p)
  PROVE  CascadeInv'
<1>1. load[p] \in LoadRecord /\ load[p].pc = "messages" /\ load[p].read # <<>> /\ load[p].queue # <<>>
  BY DEF CascadeInv, LoadsAreTyped, LoadRecord, LoadMessages
<1>2. PICK q \in Seq(Nat) : q = load[p].queue
  BY <1>1 DEF LoadRecord
<1>3. PICK n \in Nat \ {0} : n = Len(q) /\ DOMAIN q = 1 .. n
  BY <1>1, <1>2
<1>4. \A k \in 1 .. n : q[k] \in DOMAIN turns
  BY <1>2, <1>3 DEF CascadeInv, LoadsAreTyped
<1>5. PICK i \in DOMAIN turns : i = Head(q)
  BY <1>3, <1>4
<1>6. PICK t : t = [kind |-> "turn", agent |-> turns[i].agent, index |-> turns[i].index]
  OBVIOUS
<1>7. PICK ms : ms = Under(i)
  OBVIOUS
<1>8. PICK said : said = [k \in DOMAIN ms |->
                            [kind |-> "message", agent |-> ms[k].agent, index |-> ms[k].index]]
  OBVIOUS
<1>9. <<t>> \o said \in Chains /\ said \in Seq(Statement) /\ t \in Statement
  BY <1>6, <1>7, <1>8, TurnWithMessages
<1>10. PICK read \in Children : read = load[p].read /\ read # <<>>
  BY <1>1 DEF LoadRecord
<1>11. PICK now : now = read \o <<t>> \o said
  OBVIOUS
<1>12. PICK turn : turn = <<t>> \o said
  OBVIOUS
<1>13. now \in Children /\ now # <<>>
  <2>1. read \in Seq(Statement) /\ <<t>> \in Seq(Statement)
    BY <1>9 DEF Children, Chains
  <2>2. now = read \o turn
    BY <1>9, <1>11, <1>12, <2>1, ConcatAssociative
  <2>3. now \in Children
    BY <1>9, <1>10, <1>12, <2>2, ChildrenJoin
  <2>4. turn \in Seq(Statement) /\ Len(read) # 0 /\ Len(now) = Len(read) + Len(turn)
    BY <1>9, <1>10, <1>12, <2>1, <2>2, ConcatProperties
  <2>5. Len(now) # 0
    BY <2>1, <2>4
  <2> QED
    BY <2>3, <2>5
<1>14. PICK l : l = [load[p] EXCEPT !.queue = Tail(q), !.read = now]
  OBVIOUS
<1>15. /\ Tail(q) \in Seq(Nat) /\ DOMAIN Tail(q) = 1 .. n - 1
       /\ \A k \in 1 .. n - 1 : Tail(q)[k] \in DOMAIN turns
  <2>1. /\ Tail(q) \in Seq(Nat) /\ Len(Tail(q)) = n - 1
        /\ \A k \in 1 .. n - 1 : Tail(q)[k] = q[k + 1]
    BY <1>3
  <2>2. \A k \in 1 .. n - 1 : k + 1 \in 1 .. n
    OBVIOUS
  <2> QED
    BY <1>4, <2>1, <2>2
<1>16. l \in LoadRecord /\ l.read # <<>> /\ l.queue = Tail(q)
  BY <1>1, <1>13, <1>14, <1>15 DEF LoadRecord
<1>17. /\ load' = [load EXCEPT ![p] = l]
       /\ UNCHANGED <<tables, active, job, todo, review, parent, errors>>
  BY <1>1, <1>2, <1>5, <1>6, <1>7, <1>8, <1>10, <1>11, <1>14 DEF LoadMessages, CascadeInv, LoadsAreTyped
<1>18. UNCHANGED turns
  BY <1>17 DEF tables
<1>19. LoadsAreTyped'
  BY <1>15, <1>16, <1>17, <1>18, OneLoad
<1> QED
  BY <1>17, <1>19, LoadKeeps

\* A load ends with what it has read.
LEMMA LoadEndsStep ==
  ASSUME CascadeInv, NEW p \in Loads, LoadEnds(p)
  PROVE  CascadeInv'
<1>1. load[p] \in LoadRecord
  BY DEF CascadeInv, LoadsAreTyped, LoadRecord
<1>2. PICK l : l = [load[p] EXCEPT !.pc = "check"]
  OBVIOUS
<1>3. l \in LoadRecord /\ l.pc = "check" /\ l.queue = load[p].queue
  BY <1>1, <1>2 DEF LoadRecord
<1>4. /\ load' = [load EXCEPT ![p] = l]
      /\ UNCHANGED <<tables, active, job, todo, review, parent, errors>>
  BY <1>2 DEF LoadEnds, CascadeInv, LoadsAreTyped
<1>5. UNCHANGED turns /\ \A k \in DOMAIN l.queue : l.queue[k] \in DOMAIN turns
  BY <1>3, <1>4 DEF tables, CascadeInv, LoadsAreTyped
<1>6. LoadsAreTyped'
  BY <1>3, <1>4, <1>5, OneLoad
<1> QED
  BY <1>4, <1>6, LoadKeeps

\* The load of a page is over.
LEMMA LoadIsOver ==
  ASSUME CascadeInv, NEW p \in Loads, load' = [load EXCEPT ![p] = NoLoad], UNCHANGED turns
  PROVE  LoadsAreTyped'
<1>1. <<>> \in Seq(Nat) /\ <<>> \in Children /\ DOMAIN <<>> = {}
  BY NothingToJoin
<1>2. PICK l : l = NoLoad
  OBVIOUS
<1>3. l \in LoadRecord /\ l.pc = "idle" /\ DOMAIN l.queue = {}
  BY <1>1, <1>2 DEF NoLoad, LoadRecord
<1> QED
  BY <1>2, <1>3, OneLoad

\* A load marks a review whose job is gone.
LEMMA ReconcileStep ==
  ASSUME CascadeInv, NEW p \in Loads, Reconcile(p)
  PROVE  CascadeInv'
<1>1. load[p] \in LoadRecord /\ p \in Writers
  BY DEF CascadeInv, LoadsAreTyped, LoadRecord, Writers
<1>2. UNCHANGED <<tables, active, job, review, parent, errors>> /\ UNCHANGED turns
  BY DEF Reconcile, tables
<1>3. CASE todo' = [todo EXCEPT ![p] = SaveReview("Failed", load[p].read)]
           /\ load' = [load EXCEPT ![p].pc = "save"]
  <2>1. PICK s : s = SaveReview("Failed", load[p].read)
    OBVIOUS
  <2>2. s \in Saves /\ (s # <<>> => Head(s).kind = "review")
    BY <1>1, <2>1, SaveOfChildren DEF LoadRecord
  <2>3. PICK l : l = [load[p] EXCEPT !.pc = "save"]
    OBVIOUS
  <2>4. l \in LoadRecord /\ l.pc = "save" /\ l.queue = load[p].queue
    BY <1>1, <2>3 DEF LoadRecord
  <2>5. load' = [load EXCEPT ![p] = l]
    BY <1>3, <2>3 DEF CascadeInv, LoadsAreTyped
  <2>6. \A k \in DOMAIN l.queue : l.queue[k] \in DOMAIN turns
    BY <2>4 DEF CascadeInv, LoadsAreTyped
  <2>7. LoadsAreTyped'
    BY <1>2, <2>4, <2>5, <2>6, OneLoad
  <2>8. active' \subseteq Reviews /\ job' \in [Reviews -> {"working", "saving", "marking", "done"}]
        /\ errors' \in 0 .. MaxErrors
    BY <1>2 DEF CascadeInv, WritersAreTyped
  <2> QED
    BY <1>1, <1>2, <1>3, <2>1, <2>2, <2>7, <2>8, WriterSteps
<1>4. CASE load' = [load EXCEPT ![p] = NoLoad] /\ UNCHANGED todo
  BY <1>2, <1>4, LoadIsOver, LoadKeeps
<1> QED
  BY <1>3, <1>4 DEF Reconcile

\* A load answers once its save is done.
LEMMA AnswerStep ==
  ASSUME CascadeInv, NEW p \in Loads, Answer(p)
  PROVE  CascadeInv'
<1>1. /\ load' = [load EXCEPT ![p] = NoLoad]
      /\ UNCHANGED <<tables, active, job, todo, review, parent, errors>>
  BY DEF Answer
<1>2. UNCHANGED turns
  BY <1>1 DEF tables
<1> QED
  BY <1>1, <1>2, LoadIsOver, LoadKeeps

\* Loads are not touched by who writes.
LEMMA LoadsStay ==
  ASSUME CascadeInv, UNCHANGED <<turns, load>>
  PROVE  LoadsAreTyped'
  BY DEF CascadeInv, LoadsAreTyped

\* A job writes its review, with its transcript or as failed, or a save ends early.
LEMMA WriterStarts ==
  ASSUME CascadeInv, NEW w \in Writers, StatementFails(w) \/ (w \in Reviews /\ (Save(w) \/ Mark(w)))
  PROVE  CascadeInv'
<1>1. UNCHANGED <<tables, active, review, parent, load>> /\ UNCHANGED turns
  BY DEF StatementFails, Save, Mark, tables
<1>2. PICK s \in Saves : todo' = [todo EXCEPT ![w] = s] /\ (s # <<>> => Head(s).kind = "review")
  <2>1. CASE StatementFails(w)
    <3>1. todo' = [todo EXCEPT ![w] = <<>>]
      BY <2>1 DEF StatementFails
    <3> QED
      BY <3>1, NothingLeft
  <2>2. CASE Save(w)
    <3>1. PICK s \in {SaveReview("Completed", Transcript), SaveReview("Failed", <<>>)} :
            todo' = [todo EXCEPT ![w] = s]
      BY <2>2 DEF Save
    <3>2. s \in Saves /\ Head(s).kind = "review"
      BY <3>1, SaveOfChildren, TranscriptIsChildren, NothingToJoin
    <3> QED
      BY <3>1, <3>2
  <2>3. CASE Mark(w)
    <3>1. PICK s : s = SaveReview("Failed", <<>>)
      OBVIOUS
    <3>2. s \in Saves /\ Head(s).kind = "review" /\ todo' = [todo EXCEPT ![w] = s]
      BY <2>3, <3>1, SaveOfChildren, NothingToJoin DEF Mark
    <3> QED
      BY <3>2
  <2> QED
    BY <2>1, <2>2, <2>3
<1>3. job \in [Reviews -> {"working", "saving", "marking", "done"}] /\ active \subseteq Reviews
      /\ errors \in 0 .. MaxErrors /\ MaxErrors \in Nat
  BY CascadeAssumption DEF CascadeInv, WritersAreTyped
<1>4. job' \in [Reviews -> {"working", "saving", "marking", "done"}] /\ errors' \in 0 .. MaxErrors
  <2>1. CASE StatementFails(w)
    <3>1. errors' \in 0 .. MaxErrors
      BY <1>3, <2>1 DEF StatementFails
    <3>2. job' = job \/ job' = [job EXCEPT ![w] = "marking"]
      BY <2>1 DEF StatementFails
    <3> QED
      BY <1>3, <3>1, <3>2
  <2>2. CASE Save(w) \/ Mark(w)
    BY <1>3, <2>2 DEF Save, Mark
  <2> QED
    BY <2>1, <2>2
<1>5. LoadsAreTyped'
  BY <1>1, LoadsStay
<1> QED
  BY <1>1, <1>2, <1>3, <1>4, <1>5, WriterSteps

\* A job leaves the map of active ones.
LEMMA UnregisterStep ==
  ASSUME CascadeInv, NEW r \in Reviews, Unregister(r)
  PROVE  CascadeInv'
<1>1. UNCHANGED <<status, session, turns, messages, todo, review, parent, load, errors>>
  BY DEF Unregister, tables
<1>2. WritersAreTyped'
  <2>1. job' \in [Reviews -> {"working", "saving", "marking", "done"}] /\ active' \subseteq Reviews
    BY DEF Unregister, CascadeInv, WritersAreTyped
  <2> QED
    BY <1>1, <2>1 DEF CascadeInv, WritersAreTyped
<1>3. TablesAreTyped' /\ LoadsAreTyped' /\ NextHasItsParent' /\ UnderTheirTurn' /\ ChildrenHaveParents'
  BY <1>1 DEF CascadeInv, TablesAreTyped, LoadsAreTyped, NextHasItsParent, HasItsParent, UnderTheirTurn,
              ChildrenHaveParents
<1> QED
  BY <1>2, <1>3 DEF CascadeInv

\* Every step keeps the invariant.
LEMMA CascadeKeeps == CascadeInv /\ [CascadeNext]_cascadeVars => CascadeInv'
<1> SUFFICES ASSUME CascadeInv, [CascadeNext]_cascadeVars PROVE CascadeInv'
  OBVIOUS
<1>1. CASE \E w \in Writers : Execute(w)
  BY <1>1, ExecuteStep
<1>2. CASE \E w \in Writers : StatementFails(w)
  BY <1>2, WriterStarts
<1>3. CASE \E r \in Reviews : Save(r) \/ Mark(r)
  BY <1>3, WriterStarts DEF Writers
<1>4. CASE \E r \in Reviews : Unregister(r)
  BY <1>4, UnregisterStep
<1>5. CASE \E p \in Loads : LoadRow(p) \/ LoadSessions(p) \/ LoadTurns(p) \/ LoadMessages(p)
  BY <1>5, LoadRowStep, LoadSessionsStep, LoadTurnsStep, LoadMessagesStep
<1>6. CASE \E p \in Loads : LoadEnds(p) \/ Reconcile(p) \/ Answer(p)
  BY <1>6, LoadEndsStep, ReconcileStep, AnswerStep
<1>7. CASE UNCHANGED cascadeVars
  <2>1. UNCHANGED <<tables, active, job, todo, review, parent, errors>> /\ UNCHANGED turns /\ UNCHANGED load
    BY <1>7 DEF cascadeVars, tables
  <2> QED
    BY <2>1, LoadsStay, LoadKeeps
<1> QED
  BY <1>1, <1>2, <1>3, <1>4, <1>5, <1>6, <1>7 DEF CascadeNext

\* The invariant says what the properties say of the tables.
LEMMA CascadeSays == CascadeInv => MessagesUnderTheirTurn /\ ParentsFirst
<1> SUFFICES ASSUME CascadeInv PROVE MessagesUnderTheirTurn /\ ParentsFirst
  OBVIOUS
<1>1. PICK Row : Row = [turn : Nat, agent : Agents, index : 1 .. TurnCount]
  OBVIOUS
<1>2. messages \in Seq(Row) /\ turns \in Seq(TurnRow)
  BY <1>1 DEF CascadeInv, TablesAreTyped
<1>3. \A m \in ToSet(messages) : \E j \in DOMAIN messages : m = messages[j]
  BY <1>2 DEF ToSet
<1>4. \A t \in ToSet(turns) : \E i \in DOMAIN turns : t = turns[i]
  BY <1>2 DEF ToSet
<1>5. MessagesUnderTheirTurn
  BY <1>3 DEF CascadeInv, UnderTheirTurn, MessagesUnderTheirTurn
<1>6. ParentsFirst
  BY <1>4 DEF CascadeInv, ChildrenHaveParents, ParentsFirst
<1> QED
  BY <1>5, <1>6

\* However the saves and loads of the reviews interleave and wherever one of them
\* fails, a message lies under the turn it was said in, a turn under a session, and no
\* session is stored before its review has ended: whoever reads the tables between two
\* statements finds no child without its parent, and a row that still looks running has
\* no transcript that marking it could double (build_save_function, __parent_pk).
THEOREM RowsHangTogether == CascadeSpec => [](MessagesUnderTheirTurn /\ ParentsFirst)
<1>1. CascadeInit => CascadeInv
  BY CascadeStarts
<1>2. CascadeInv /\ [CascadeNext]_cascadeVars => CascadeInv'
  BY CascadeKeeps
<1>3. CascadeInv => MessagesUnderTheirTurn /\ ParentsFirst
  BY CascadeSays
<1> QED
  BY <1>1, <1>2, <1>3, PTL DEF CascadeSpec

-----------------------------------------------------------------------------
(* What a load reads of the tables turns and messages, ts and ms.           *)

MessageRow == [turn : Nat, agent : Agents, index : 1 .. TurnCount]

\* The places of a review's turns, as LoadTurns reads them.
PlacesOf(ts, r) == Picked([i \in DOMAIN ts |-> i], {i \in DOMAIN ts : ts[i].review = r})

\* A turn with its messages, as LoadMessages reads them.
AsTurn(t) == [kind |-> "turn", agent |-> t.agent, index |-> t.index]
AsMessage(m) == [kind |-> "message", agent |-> m.agent, index |-> m.index]
MessagesOf(ms, i) == Picked(ms, {j \in DOMAIN ms : ms[j].turn = i})
Said(ms, i) == [k \in DOMAIN MessagesOf(ms, i) |-> AsMessage(MessagesOf(ms, i)[k])]
ReadOf(ts, ms, i) == <<AsTurn(ts[i])>> \o Said(ms, i)

\* One turn after the other, and all of a review.
ReadAll(ts, ms, q) == FlattenSeq([k \in DOMAIN q |-> ReadOf(ts, ms, q[k])])
Stored(ts, ms, r) == ReadAll(ts, ms, PlacesOf(ts, r))

\* They are statements.
LEMMA ReadIsTyped ==
  ASSUME NEW ts \in Seq(TurnRow), NEW ms \in Seq(MessageRow)
  PROVE  /\ \A i : Said(ms, i) \in Seq(Statement)
         /\ \A i \in DOMAIN ts : ReadOf(ts, ms, i) \in Seq(Statement)
         /\ \A q \in Seq(DOMAIN ts) : ReadAll(ts, ms, q) \in Seq(Statement)
<1>1. ASSUME NEW i PROVE Said(ms, i) \in Seq(Statement)
  <2>1. PICK p \in Seq(MessageRow) : p = MessagesOf(ms, i)
    BY PickedPlaces DEF MessagesOf
  <2>2. PICK n \in Nat : n = Len(p) /\ DOMAIN p = 1 .. n /\ \A k \in 1 .. n : p[k] \in MessageRow
    OBVIOUS
  <2>3. \A m \in MessageRow : AsMessage(m) \in Statement
    BY DEF MessageRow, AsMessage, Statement
  <2>4. Said(ms, i) = [k \in 1 .. n |-> AsMessage(p[k])]
    BY <2>1, <2>2 DEF Said
  <2> QED
    BY <2>2, <2>3, <2>4
<1>2. ASSUME NEW i \in DOMAIN ts PROVE ReadOf(ts, ms, i) \in Seq(Statement)
  <2>1. ts[i] \in TurnRow
    OBVIOUS
  <2>2. PICK t : t = AsTurn(ts[i])
    OBVIOUS
  <2>3. t \in Statement
    BY <2>1, <2>2 DEF TurnRow, AsTurn, Statement
  <2>4. <<t>> \in Seq(Statement)
    BY <2>3
  <2> QED
    BY <1>1, <2>2, <2>4, ConcatProperties DEF ReadOf
<1>3. ASSUME NEW q \in Seq(DOMAIN ts) PROVE ReadAll(ts, ms, q) \in Seq(Statement)
  <2>1. PICK seqs : seqs = [k \in DOMAIN q |-> ReadOf(ts, ms, q[k])]
    OBVIOUS
  <2>2. PICK n \in Nat : n = Len(q) /\ DOMAIN q = 1 .. n /\ \A k \in 1 .. n : q[k] \in DOMAIN ts
    OBVIOUS
  <2>3. \A k \in 1 .. n : seqs[k] \in Seq(Statement)
    BY <1>2, <2>1, <2>2
  <2>4. seqs \in Seq(Seq(Statement))
    BY <2>1, <2>2, <2>3
  <2> QED
    BY <2>1, <2>4, FlattenType DEF ReadAll
<1> QED
  BY <1>1, <1>2, <1>3

\* A load goes on with the next turn, and stops after the last.
LEMMA ReadsOn ==
  ASSUME NEW ts \in Seq(TurnRow), NEW ms \in Seq(MessageRow), NEW q \in Seq(DOMAIN ts)
  PROVE  /\ q = <<>> => ReadAll(ts, ms, q) = <<>>
         /\ q # <<>> => ReadAll(ts, ms, q) = ReadOf(ts, ms, Head(q)) \o ReadAll(ts, ms, Tail(q))
         /\ \A i \in DOMAIN ts : ReadAll(ts, ms, Append(q, i)) = ReadAll(ts, ms, q) \o ReadOf(ts, ms, i)
<1>1. PICK seqs : seqs = [k \in DOMAIN q |-> ReadOf(ts, ms, q[k])]
  OBVIOUS
<1>2. PICK n \in Nat : n = Len(q) /\ DOMAIN q = 1 .. n /\ \A k \in 1 .. n : q[k] \in DOMAIN ts
  OBVIOUS
<1>3. \A i \in DOMAIN ts : ReadOf(ts, ms, i) \in Seq(Statement)
  BY ReadIsTyped
<1>4. seqs \in Seq(Seq(Statement)) /\ Len(seqs) = n
  <2>1. \A k \in 1 .. n : seqs[k] \in Seq(Statement)
    BY <1>1, <1>2, <1>3
  <2> QED
    BY <1>1, <1>2, <2>1
<1>5. ReadAll(ts, ms, q) = FlattenSeq(seqs)
  BY <1>1 DEF ReadAll
<1>6. ASSUME q = <<>> PROVE ReadAll(ts, ms, q) = <<>>
  <2>1. seqs = <<>>
    BY <1>2, <1>4, <1>6
  <2> QED
    BY <1>4, <1>5, <2>1, FlattenType
<1>7. ASSUME q # <<>> PROVE ReadAll(ts, ms, q) = ReadOf(ts, ms, Head(q)) \o ReadAll(ts, ms, Tail(q))
  <2>1. n # 0 /\ seqs # <<>>
    BY <1>2, <1>4, <1>7
  <2>2. Head(seqs) = ReadOf(ts, ms, Head(q))
    BY <1>1, <1>2, <1>4, <2>1
  <2>3. Tail(seqs) = [k \in DOMAIN Tail(q) |-> ReadOf(ts, ms, Tail(q)[k])]
    <3>1. DOMAIN Tail(q) = 1 .. n - 1 /\ \A k \in 1 .. n - 1 : Tail(q)[k] = q[k + 1]
      BY <1>2, <2>1
    <3>2. PICK u : u = Tail(seqs)
      OBVIOUS
    <3>3. u \in Seq(Seq(Statement)) /\ Len(u) = n - 1 /\ \A k \in 1 .. n - 1 : u[k] = seqs[k + 1]
      <4>1. PICK Q : Q = Seq(Statement)
        OBVIOUS
      <4>2. seqs \in Seq(Q) /\ Len(seqs) = n /\ seqs # <<>>
        BY <1>4, <2>1, <4>1
      <4>3. u \in Seq(Q) /\ Len(u) = n - 1 /\ \A k \in 1 .. n - 1 : u[k] = seqs[k + 1]
        BY <3>2, <4>2
      <4> QED
        BY <4>1, <4>3
    <3>4. u = [k \in 1 .. n - 1 |-> u[k]]
      BY <3>3
    <3>5. \A k \in 1 .. n - 1 : k + 1 \in 1 .. n /\ seqs[k + 1] = ReadOf(ts, ms, q[k + 1])
      BY <1>1, <1>2
    <3> QED
      BY <3>1, <3>2, <3>3, <3>4, <3>5
  <2>4. FlattenSeq(seqs) = Head(seqs) \o FlattenSeq(Tail(seqs))
    BY <1>4, <2>1, FlattenFirst
  <2> QED
    BY <1>5, <2>2, <2>3, <2>4 DEF ReadAll
<1>8. ASSUME NEW i \in DOMAIN ts PROVE ReadAll(ts, ms, Append(q, i)) = ReadAll(ts, ms, q) \o ReadOf(ts, ms, i)
  <2>1. PICK x \in Seq(Statement) : x = ReadOf(ts, ms, i)
    BY <1>3
  <2>2. PICK u : u = Append(q, i)
    OBVIOUS
  <2>3. DOMAIN u = 1 .. n + 1 /\ u[n + 1] = i /\ \A k \in 1 .. n : u[k] = q[k]
    BY <1>2, <2>2
  <2>4. PICK f : f = [k \in DOMAIN u |-> ReadOf(ts, ms, u[k])]
    OBVIOUS
  <2>5. f = Append(seqs, x)
    <3>1. PICK g : g = Append(seqs, x)
      OBVIOUS
    <3>2. g \in Seq(Seq(Statement)) /\ Len(g) = n + 1 /\ g[n + 1] = x /\ \A k \in 1 .. n : g[k] = seqs[k]
      <4>1. PICK Q : Q = Seq(Statement)
        OBVIOUS
      <4>2. seqs \in Seq(Q) /\ Len(seqs) = n /\ x \in Q
        BY <1>4, <2>1, <4>1
      <4>3. g \in Seq(Q) /\ Len(g) = n + 1 /\ g[n + 1] = x /\ \A k \in 1 .. n : g[k] = seqs[k]
        BY <3>1, <4>2
      <4> QED
        BY <4>1, <4>3
    <3>3. \A k \in 1 .. n + 1 : k = n + 1 \/ k \in 1 .. n
      OBVIOUS
    <3>4. \A k \in 1 .. n + 1 : f[k] = g[k]
      BY <1>1, <1>2, <2>1, <2>3, <2>4, <3>2, <3>3
    <3>5. g = [k \in 1 .. n + 1 |-> g[k]]
      BY <3>2
    <3>6. f = [k \in 1 .. n + 1 |-> f[k]]
      <4>1. DOMAIN u = 1 .. n + 1
        BY <2>3
      <4> QED
        BY <2>4, <4>1, Zenon
    <3> QED
      BY <3>1, <3>4, <3>5, <3>6
  <2>6. FlattenSeq(f) = FlattenSeq(seqs) \o x
    BY <1>4, <2>5, FlattenAppend
  <2> QED
    BY <1>5, <2>1, <2>2, <2>4, <2>6 DEF ReadAll
<1> QED
  BY <1>6, <1>7, <1>8

\* The places of a review's turns, in their order.
LEMMA PlacesAreTurns ==
  ASSUME NEW ts \in Seq(TurnRow), NEW r
  PROVE  /\ PlacesOf(ts, r) \in Seq(DOMAIN ts)
         /\ \A k \in DOMAIN PlacesOf(ts, r) : ts[PlacesOf(ts, r)[k]].review = r
         /\ \A k, l \in DOMAIN PlacesOf(ts, r) : k < l => PlacesOf(ts, r)[k] < PlacesOf(ts, r)[l]
         /\ (\A i \in DOMAIN ts : ts[i].review # r) => PlacesOf(ts, r) = <<>>
<1>1. PICK n \in Nat : n = Len(ts) /\ DOMAIN ts = 1 .. n
  OBVIOUS
<1>2. PICK I : I = {i \in DOMAIN ts : ts[i].review = r}
  OBVIOUS
<1>3. PICK p : p = PlacesOf(ts, r)
  OBVIOUS
<1>4. /\ p \in Seq(1 .. n) /\ ToSet(p) = I
      /\ \A k, l \in DOMAIN p : k < l => p[k] < p[l]
  <2>1. p = Picked([i \in 1 .. n |-> i], I) /\ I \in SUBSET (1 .. n)
    BY <1>1, <1>2, <1>3 DEF PlacesOf
  <2>2. \A J \in SUBSET (1 .. n) : \A t : t = Picked([i \in 1 .. n |-> i], J) =>
          /\ t \in Seq(1 .. n) /\ ToSet(t) = J
          /\ \A k, l \in DOMAIN t : k < l => t[k] < t[l]
    BY PlacesInOrder
  <2> QED
    BY <2>1, <2>2, Zenon
<1>5. \A k \in DOMAIN p : p[k] \in I
  BY <1>4 DEF ToSet
<1>6. I = {} => p = <<>>
  <2>1. I = {} => DOMAIN p = {}
    BY <1>5
  <2>2. DOMAIN p = {} => Len(p) = 0
    BY <1>4
  <2> QED
    BY <1>4, <2>1, <2>2
<1> QED
  BY <1>1, <1>2, <1>3, <1>4, <1>5, <1>6

\* A load reads the same while it does so of every turn.
LEMMA ReadsTheSame ==
  ASSUME NEW ts, NEW us, NEW ms, NEW ns, NEW q,
         \A k \in DOMAIN q : ReadOf(ts, ms, q[k]) = ReadOf(us, ns, q[k])
  PROVE  ReadAll(ts, ms, q) = ReadAll(us, ns, q)
  BY Zenon DEF ReadAll

\* A turn more is not seen by who has read the turns.
LEMMA TurnIsUnread ==
  ASSUME NEW ts \in Seq(TurnRow), NEW ms \in Seq(MessageRow), NEW rec \in TurnRow, NEW us,
         us = Append(ts, rec), NEW q \in Seq(DOMAIN ts)
  PROVE  ReadAll(us, ms, q) = ReadAll(ts, ms, q)
<1>1. PICK n \in Nat : n = Len(ts) /\ DOMAIN ts = 1 .. n
  OBVIOUS
<1>2. \A i \in 1 .. n : us[i] = ts[i]
  BY <1>1
<1>3. \A k \in DOMAIN q : q[k] \in 1 .. n
  BY <1>1
<1>4. \A k \in DOMAIN q : ReadOf(us, ms, q[k]) = ReadOf(ts, ms, q[k])
  BY <1>2, <1>3 DEF ReadOf
<1> QED
  BY <1>4, ReadsTheSame

\* Its place is the last of its review.
LEMMA TurnIsListed ==
  ASSUME NEW ts \in Seq(TurnRow), NEW rec \in TurnRow, NEW us, us = Append(ts, rec), NEW r \in Reviews
  PROVE  /\ rec.review = r => PlacesOf(us, r) = Append(PlacesOf(ts, r), Len(ts) + 1)
         /\ rec.review # r => PlacesOf(us, r) = PlacesOf(ts, r)
<1>1. PICK n \in Nat : n = Len(ts) /\ DOMAIN ts = 1 .. n
  OBVIOUS
<1>2. /\ us \in Seq(TurnRow) /\ Len(us) = n + 1 /\ DOMAIN us = 1 .. n + 1 /\ us[n + 1] = rec
      /\ \A i \in 1 .. n : us[i] = ts[i]
  BY <1>1
<1>3. PICK I, J : I = {i \in DOMAIN us : us[i].review = r} /\ J = {i \in DOMAIN ts : ts[i].review = r}
  OBVIOUS
<1>4. (\A i \in 1 .. n : i \in I <=> i \in J) /\ (n + 1 \in I <=> rec.review = r)
  BY <1>1, <1>2, <1>3
<1>5. Picked([i \in 1 .. n + 1 |-> i], I) =
        IF n + 1 \in I THEN Append(Picked([i \in 1 .. n |-> i], J), n + 1)
                       ELSE Picked([i \in 1 .. n |-> i], J)
  BY <1>4, PlacesAppend
<1>6. /\ PlacesOf(us, r) = Picked([i \in 1 .. n + 1 |-> i], I)
      /\ PlacesOf(ts, r) = Picked([i \in 1 .. n |-> i], J)
  BY <1>1, <1>2, <1>3 DEF PlacesOf
<1> QED
  BY <1>1, <1>4, <1>5, <1>6

\* It is not read by who loads another review.
LEMMA TurnIsElsewhere ==
  ASSUME NEW ts \in Seq(TurnRow), NEW ms \in Seq(MessageRow), NEW rec \in TurnRow, NEW us,
         us = Append(ts, rec), NEW r \in Reviews, rec.review # r
  PROVE  Stored(us, ms, r) = Stored(ts, ms, r)
<1>1. PlacesOf(us, r) = PlacesOf(ts, r) /\ PlacesOf(ts, r) \in Seq(DOMAIN ts)
  <2>1. PlacesOf(us, r) = PlacesOf(ts, r)
    BY TurnIsListed
  <2>2. PlacesOf(ts, r) \in Seq(DOMAIN ts)
    BY PlacesAreTurns
  <2> QED
    BY <2>1, <2>2
<1>2. ReadAll(us, ms, PlacesOf(ts, r)) = ReadAll(ts, ms, PlacesOf(ts, r))
  BY <1>1, TurnIsUnread
<1> QED
  BY <1>1, <1>2 DEF Stored

\* Who loads its own reads it once, at the end.
LEMMA TurnIsStored ==
  ASSUME NEW ts \in Seq(TurnRow), NEW ms \in Seq(MessageRow), NEW rec \in TurnRow, NEW us,
         us = Append(ts, rec), \A j \in DOMAIN ms : ms[j].turn \in DOMAIN ts
  PROVE  Stored(us, ms, rec.review) = Append(Stored(ts, ms, rec.review), AsTurn(rec))
<1>1. PICK n \in Nat : n = Len(ts) /\ DOMAIN ts = 1 .. n
  OBVIOUS
<1>2. /\ us \in Seq(TurnRow) /\ Len(us) = n + 1 /\ DOMAIN us = 1 .. n + 1 /\ us[n + 1] = rec
      /\ \A i \in 1 .. n : us[i] = ts[i]
  BY <1>1
<1>3. PICK r \in Reviews : r = rec.review
  BY DEF TurnRow
<1>4. PlacesOf(us, r) = Append(PlacesOf(ts, r), n + 1)
  BY <1>1, <1>3, TurnIsListed
<1>5. \A q \in Seq(DOMAIN ts) : ReadAll(us, ms, q) = ReadAll(ts, ms, q)
  BY TurnIsUnread
<1>6. PICK q \in Seq(DOMAIN ts) : q = PlacesOf(ts, r)
  BY PlacesAreTurns
<1>7. Stored(us, ms, r) = Append(Stored(ts, ms, r), AsTurn(rec))
  <2>1. DOMAIN ts \subseteq DOMAIN us /\ n + 1 \in DOMAIN us
    BY <1>1, <1>2
  <2>2. q \in Seq(DOMAIN us)
    BY <2>1
  <2>3. ReadAll(us, ms, Append(q, n + 1)) = ReadAll(us, ms, q) \o ReadOf(us, ms, n + 1)
    BY <1>2, <2>1, <2>2, ReadsOn
  <2>4. ReadOf(us, ms, n + 1) = <<AsTurn(rec)>>
    <3>1. \A j \in DOMAIN ms : ms[j].turn # n + 1
      BY <1>1
    <3>2. {j \in DOMAIN ms : ms[j].turn = n + 1} = {}
      BY <3>1
    <3>3. MessagesOf(ms, n + 1) = <<>>
      <4>1. PICK p \in Seq(MessageRow) : p = MessagesOf(ms, n + 1)
        BY PickedPlaces DEF MessagesOf
      <4>2. ToSet(p) = {ms[i] : i \in {} \cap DOMAIN ms}
        BY <3>2, <4>1, PickedMembers DEF MessagesOf
      <4>3. DOMAIN p = {}
        BY <4>2 DEF ToSet
      <4>4. p = <<>>
        BY <4>3
      <4> QED
        BY <4>1, <4>4
    <3>4. Said(ms, n + 1) = <<>>
      BY <3>3 DEF Said
    <3>5. PICK one : one = <<AsTurn(rec)>>
      OBVIOUS
    <3>6. one \o <<>> = one
      BY <3>5
    <3> QED
      BY <1>2, <3>4, <3>5, <3>6 DEF ReadOf
  <2>5. PICK p \in Seq(Statement) : p = Stored(ts, ms, r)
    BY <1>6, ReadIsTyped DEF Stored
  <2>6. Stored(us, ms, r) = p \o <<AsTurn(rec)>>
    BY <1>4, <1>5, <1>6, <2>3, <2>4, <2>5 DEF Stored
  <2>7. p \o <<AsTurn(rec)>> = Append(p, AsTurn(rec))
    <3>1. PICK t : t = AsTurn(rec)
      OBVIOUS
    <3>2. t \in Statement
      BY <3>1 DEF AsTurn, TurnRow, Statement
    <3> QED
      BY <3>1, <3>2
  <2> QED
    BY <2>5, <2>6, <2>7
<1> QED
  BY <1>3, <1>7

\* A message more is read with its turn, and with no other.
LEMMA MessageIsRead ==
  ASSUME NEW ts \in Seq(TurnRow), NEW ms \in Seq(MessageRow), NEW m \in MessageRow, NEW ns,
         ns = Append(ms, m), NEW i \in DOMAIN ts
  PROVE  ReadOf(ts, ns, i) = IF i = m.turn THEN Append(ReadOf(ts, ms, i), AsMessage(m))
                                           ELSE ReadOf(ts, ms, i)
<1>1. PICK n \in Nat : n = Len(ms) /\ DOMAIN ms = 1 .. n
  OBVIOUS
<1>2. /\ ns \in Seq(MessageRow) /\ Len(ns) = n + 1 /\ DOMAIN ns = 1 .. n + 1 /\ ns[n + 1] = m
      /\ \A j \in 1 .. n : ns[j] = ms[j]
  BY <1>1
<1>3. PICK I, J : I = {j \in DOMAIN ns : ns[j].turn = i} /\ J = {j \in DOMAIN ms : ms[j].turn = i}
  OBVIOUS
<1>4. \A j \in DOMAIN ms : j \in I <=> j \in J
  BY <1>1, <1>2, <1>3
<1>5. Len(ms) + 1 \in I <=> i = m.turn
  BY <1>1, <1>2, <1>3
<1>6. Picked(Append(ms, m), I) = IF Len(ms) + 1 \in I THEN Append(Picked(ms, J), m) ELSE Picked(ms, J)
  BY <1>4, PickedAppend
<1>7. MessagesOf(ns, i) = Picked(ns, I) /\ MessagesOf(ms, i) = Picked(ms, J)
  BY <1>3 DEF MessagesOf
<1>8. CASE i # m.turn
  <2>1. MessagesOf(ns, i) = MessagesOf(ms, i)
    BY <1>5, <1>6, <1>7, <1>8
  <2> QED
    BY <1>8, <2>1 DEF ReadOf, Said
<1>9. CASE i = m.turn
  <2>1. MessagesOf(ns, i) = Append(MessagesOf(ms, i), m)
    BY <1>5, <1>6, <1>7, <1>9
  <2>2. PICK p \in Seq(MessageRow) : p = MessagesOf(ms, i)
    BY PickedPlaces DEF MessagesOf
  <2>3. PICK u : u = MessagesOf(ns, i)
    OBVIOUS
  <2>4. PICK l \in Nat : l = Len(p) /\ DOMAIN p = 1 .. l
    OBVIOUS
  <2>5. DOMAIN u = 1 .. l + 1 /\ u[l + 1] = m /\ \A k \in 1 .. l : u[k] = p[k]
    BY <2>1, <2>2, <2>3, <2>4
  <2>6. PICK said \in Seq(Statement) : said = Said(ms, i)
    BY ReadIsTyped
  <2>7. Len(said) = l /\ \A k \in 1 .. l : said[k] = AsMessage(p[k])
    BY <2>2, <2>4, <2>6 DEF Said
  <2>8. PICK x : x = AsMessage(m)
    OBVIOUS
  <2>9. x \in Statement
    BY <2>8 DEF AsMessage, MessageRow, Statement
  <2>10. Said(ns, i) = Append(said, x)
    <3>1. PICK g : g = Append(said, x)
      OBVIOUS
    <3>2. g \in Seq(Statement) /\ Len(g) = l + 1 /\ g[l + 1] = x /\ \A k \in 1 .. l : g[k] = said[k]
      BY <2>6, <2>7, <2>9, <3>1
    <3>3. \A k \in 1 .. l + 1 : k = l + 1 \/ k \in 1 .. l
      OBVIOUS
    <3>4. \A k \in 1 .. l + 1 : g[k] = AsMessage(u[k])
      BY <2>5, <2>7, <2>8, <3>2, <3>3
    <3>5. g = [k \in 1 .. l + 1 |-> g[k]]
      BY <3>2
    <3>6. Said(ns, i) = [k \in 1 .. l + 1 |-> AsMessage(u[k])]
      BY <2>3, <2>5 DEF Said
    <3> QED
      BY <3>1, <3>4, <3>5, <3>6
  <2>11. PICK one : one = <<AsTurn(ts[i])>>
    OBVIOUS
  <2>12. one \in Seq(Statement)
    <3>1. ts[i] \in TurnRow
      OBVIOUS
    <3>2. AsTurn(ts[i]) \in Statement
      BY <3>1 DEF TurnRow, AsTurn, Statement
    <3> QED
      BY <2>11, <3>2
  <2>13. one \o Append(said, x) = Append(one \o said, x)
    BY <2>6, <2>9, <2>12
  <2> QED
    BY <1>9, <2>6, <2>8, <2>10, <2>11, <2>13 DEF ReadOf
<1> QED
  BY <1>8, <1>9

\* It is not seen by who does not read its turn.
LEMMA MessageIsUnread ==
  ASSUME NEW ts \in Seq(TurnRow), NEW ms \in Seq(MessageRow), NEW m \in MessageRow, NEW ns,
         ns = Append(ms, m), NEW q \in Seq(DOMAIN ts), \A k \in DOMAIN q : q[k] # m.turn
  PROVE  ReadAll(ts, ns, q) = ReadAll(ts, ms, q)
<1>1. \A k \in DOMAIN q : q[k] \in DOMAIN ts
  OBVIOUS
<1>2. \A k \in DOMAIN q : ReadOf(ts, ns, q[k]) = ReadOf(ts, ms, q[k])
  BY <1>1, MessageIsRead
<1> QED
  BY <1>2, ReadsTheSame

\* Nor by who loads another review; of its own, it is the last thing read if it
\* is of the last turn.
LEMMA MessageIsStored ==
  ASSUME NEW ts \in Seq(TurnRow), NEW ms \in Seq(MessageRow), NEW m \in MessageRow, NEW ns,
         ns = Append(ms, m), NEW r \in Reviews
  PROVE  /\ ts[m.turn].review # r => Stored(ts, ns, r) = Stored(ts, ms, r)
         /\ /\ PlacesOf(ts, r) # <<>>
            /\ m.turn = PlacesOf(ts, r)[Len(PlacesOf(ts, r))]
            => Stored(ts, ns, r) = Append(Stored(ts, ms, r), AsMessage(m))
<1>1. \A q \in Seq(DOMAIN ts) : (\A k \in DOMAIN q : q[k] # m.turn) => ReadAll(ts, ns, q) = ReadAll(ts, ms, q)
  <2> TAKE q \in Seq(DOMAIN ts)
  <2> HAVE \A k \in DOMAIN q : q[k] # m.turn
  <2> QED
    BY MessageIsUnread
<1>2. ASSUME ts[m.turn].review # r PROVE Stored(ts, ns, r) = Stored(ts, ms, r)
  <2>1. PICK q \in Seq(DOMAIN ts) : q = PlacesOf(ts, r)
    BY PlacesAreTurns
  <2>2. \A k \in DOMAIN q : ts[q[k]].review = r
    BY <2>1, PlacesAreTurns
  <2>3. \A k \in DOMAIN q : q[k] # m.turn
    BY <1>2, <2>2
  <2> QED
    BY <1>1, <2>1, <2>3 DEF Stored
<1>3. ASSUME PlacesOf(ts, r) # <<>>, m.turn = PlacesOf(ts, r)[Len(PlacesOf(ts, r))]
      PROVE  Stored(ts, ns, r) = Append(Stored(ts, ms, r), AsMessage(m))
  <2>1. PICK q \in Seq(DOMAIN ts) : q = PlacesOf(ts, r)
    BY PlacesAreTurns
  <2>2. \A k, l \in DOMAIN q : k < l => q[k] < q[l]
    BY <2>1, PlacesAreTurns
  <2>3. PICK n \in Nat : n + 1 = Len(q) /\ DOMAIN q = 1 .. n + 1
    <3>1. q # <<>>
      BY <1>3, <2>1
    <3>2. Len(q) - 1 \in Nat /\ (Len(q) - 1) + 1 = Len(q) /\ DOMAIN q = 1 .. Len(q)
      BY <3>1
    <3> QED
      BY <3>2
  <2>4. PICK i \in DOMAIN ts : i = q[n + 1]
    BY <2>3
  <2>5. m.turn = i
    BY <1>3, <2>1, <2>3, <2>4
  <2>6. PICK f : f = SubSeq(q, 1, n)
    OBVIOUS
  <2>7. f \in Seq(DOMAIN ts) /\ Len(f) = n /\ DOMAIN f = 1 .. n /\ \A k \in 1 .. n : f[k] = q[k]
    BY <2>3, <2>6
  <2>8. q = Append(f, i)
    BY <2>3, <2>4, <2>6, <2>7
  <2>9. \A k \in DOMAIN f : f[k] # i
    <3>1. \A k \in 1 .. n : k \in DOMAIN q /\ n + 1 \in DOMAIN q /\ k < n + 1
      BY <2>3
    <3>2. \A k \in 1 .. n : q[k] < q[n + 1]
      BY <2>2, <3>1
    <3>3. DOMAIN ts \subseteq Nat
      OBVIOUS
    <3>4. \A k \in 1 .. n : q[k] \in Nat /\ q[n + 1] \in Nat
      BY <2>3, <3>1, <3>3
    <3>5. ASSUME NEW k \in 1 .. n PROVE f[k] # i
      <4>1. PICK a \in Nat, b \in Nat : a = q[k] /\ b = q[n + 1]
        BY <3>4
      <4>2. a < b
        BY <3>2, <4>1
      <4>3. a # b
        BY <4>2
      <4> QED
        BY <2>4, <2>7, <4>1, <4>3
    <3> QED
      BY <2>7, <3>5
  <2>10. ReadAll(ts, ns, f) = ReadAll(ts, ms, f)
    BY <1>1, <2>5, <2>7, <2>9
  <2>11. ns \in Seq(MessageRow)
    OBVIOUS
  <2>12. ReadAll(ts, ns, q) = ReadAll(ts, ms, f) \o ReadOf(ts, ns, i)
    BY <2>7, <2>8, <2>10, <2>11, ReadsOn
  <2>13. ReadAll(ts, ms, q) = ReadAll(ts, ms, f) \o ReadOf(ts, ms, i)
    BY <2>7, <2>8, ReadsOn
  <2>14. ReadOf(ts, ns, i) = Append(ReadOf(ts, ms, i), AsMessage(m))
    BY <2>5, MessageIsRead
  <2>15. PICK a \in Seq(Statement), b \in Seq(Statement) : a = ReadAll(ts, ms, f) /\ b = ReadOf(ts, ms, i)
    BY <2>7, ReadIsTyped
  <2>16. PICK x : x = AsMessage(m)
    OBVIOUS
  <2>17. x \in Statement
    BY <2>16 DEF AsMessage, MessageRow, Statement
  <2>18. a \o Append(b, x) = Append(a \o b, x)
    BY <2>15, <2>17
  <2> QED
    BY <2>1, <2>12, <2>13, <2>14, <2>15, <2>16, <2>18 DEF Stored
<1> QED
  BY <1>2, <1>3

\* What is not the row of a session.
LEMMA NoSessions ==
  ASSUME NEW s \in Seq(Statement)
  PROVE  /\ WithoutSessions(s) \in Seq(Statement)
         /\ \A t \in Seq(Statement) : WithoutSessions(s \o t) = WithoutSessions(s) \o WithoutSessions(t)
         /\ (\A i \in DOMAIN s : s[i].kind # "session") => WithoutSessions(s) = s
         /\ \A x \in Statement : s = <<x>> /\ x.kind = "session" => WithoutSessions(s) = <<>>
<1>1. WithoutSessions(s) \in Seq(Statement)
  BY PickedPlaces DEF WithoutSessions
<1>2. ASSUME NEW t \in Seq(Statement)
      PROVE  WithoutSessions(s \o t) = WithoutSessions(s) \o WithoutSessions(t)
  <2>1. PICK m \in Nat, n \in Nat : m = Len(s) /\ n = Len(t) /\ DOMAIN s = 1 .. m /\ DOMAIN t = 1 .. n
    OBVIOUS
  <2>2. PICK u : u = s \o t
    OBVIOUS
  <2>3. /\ u \in Seq(Statement) /\ DOMAIN u = 1 .. m + n
        /\ \A k \in 1 .. m : u[k] = s[k]
        /\ \A k \in 1 .. n : u[m + k] = t[k]
    BY <2>1, <2>2, ConcatProperties
  <2>4. PICK I, J, K : /\ I = {i \in DOMAIN u : u[i].kind # "session"}
                       /\ J = {i \in DOMAIN s : s[i].kind # "session"}
                       /\ K = {i \in DOMAIN t : t[i].kind # "session"}
    OBVIOUS
  <2>5. \A k \in DOMAIN t : k \in K <=> Len(s) + k \in I
    <3>1. \A k \in 1 .. n : m + k \in 1 .. m + n
      BY <2>1
    <3> QED
      BY <2>1, <2>3, <2>4, <3>1
  <2>6. \A i \in DOMAIN s : i \in I <=> i \in J
    <3>1. \A k \in 1 .. m : k \in 1 .. m + n
      BY <2>1
    <3> QED
      BY <2>1, <2>3, <2>4, <3>1
  <2>7. Picked(s \o t, I) = Picked(s, I) \o Picked(t, K)
    BY <2>5, PickedJoin
  <2>8. Picked(s, I) = Picked(s, J)
    BY <2>6, PickedSame
  <2> QED
    BY <2>2, <2>4, <2>7, <2>8 DEF WithoutSessions
<1>3. ASSUME \A i \in DOMAIN s : s[i].kind # "session" PROVE WithoutSessions(s) = s
  <2>1. PICK I : I = {i \in DOMAIN s : s[i].kind # "session"}
    OBVIOUS
  <2>2. DOMAIN s \subseteq I
    BY <1>3, <2>1
  <2> QED
    BY <2>1, <2>2, PickedAll DEF WithoutSessions
<1>4. ASSUME NEW x \in Statement, s = <<x>>, x.kind = "session" PROVE WithoutSessions(s) = <<>>
  <2>1. PICK w \in Seq(Statement) : w = WithoutSessions(s)
    BY <1>1
  <2>2. {i \in DOMAIN s : s[i].kind # "session"} = {}
    BY <1>4
  <2>3. ToSet(w) = {s[i] : i \in {} \cap DOMAIN s}
    BY <2>1, <2>2, PickedMembers DEF WithoutSessions
  <2>4. DOMAIN w = {}
    BY <2>3 DEF ToSet
  <2>5. w = <<>>
    BY <2>4
  <2> QED
    BY <2>1, <2>5
<1> QED
  BY <1>1, <1>2, <1>3, <1>4

\* The first statement, unless it is a session's, and the others.
LEMMA FirstWithoutSessions ==
  ASSUME NEW s \in Seq(Statement), s # <<>>
  PROVE  WithoutSessions(s) = IF Head(s).kind = "session" THEN WithoutSessions(Tail(s))
                                                          ELSE <<Head(s)>> \o WithoutSessions(Tail(s))
<1>1. PICK x \in Statement : x = Head(s)
  OBVIOUS
<1>2. PICK t \in Seq(Statement) : t = Tail(s)
  <2>1. PICK n \in Nat \ {0} : n = Len(s) /\ DOMAIN s = 1 .. n
    OBVIOUS
  <2>2. PICK u : u = Tail(s)
    OBVIOUS
  <2>3. u \in Seq(Statement)
    BY <2>1, <2>2
  <2> QED
    BY <2>2, <2>3
<1>3. PICK one : one = <<x>>
  OBVIOUS
<1>4. one \in Seq(Statement) /\ s = one \o t /\ DOMAIN one = {1} /\ one[1] = x
  BY <1>1, <1>2, <1>3
<1>5. WithoutSessions(s) = WithoutSessions(one) \o WithoutSessions(t)
  BY <1>4, NoSessions
<1>6. CASE x.kind = "session"
  <2>1. WithoutSessions(one) = <<>>
    BY <1>3, <1>4, <1>6, NoSessions
  <2>2. PICK w \in Seq(Statement) : w = WithoutSessions(t)
    BY NoSessions
  <2>3. <<>> \o w = w
    OBVIOUS
  <2> QED
    BY <1>1, <1>2, <1>5, <1>6, <2>1, <2>2, <2>3
<1>7. CASE x.kind # "session"
  <2>1. WithoutSessions(one) = one
    BY <1>4, <1>7, NoSessions
  <2> QED
    BY <1>1, <1>2, <1>3, <1>5, <1>7, <2>1
<1> QED
  BY <1>6, <1>7

\* What a load reads of a turn has no sessions.
LEMMA ReadHasNoSessions ==
  ASSUME NEW ts \in Seq(TurnRow), NEW ms \in Seq(MessageRow), NEW i \in DOMAIN ts
  PROVE  WithoutSessions(ReadOf(ts, ms, i)) = ReadOf(ts, ms, i)
<1>1. PICK said \in Seq(Statement) : said = Said(ms, i)
  BY ReadIsTyped
<1>2. \A k \in DOMAIN said : said[k].kind = "message"
  BY <1>1 DEF Said, AsMessage
<1>3. PICK t : t = AsTurn(ts[i])
  OBVIOUS
<1>4. t \in Statement /\ t.kind = "turn"
  <2>1. ts[i] \in TurnRow
    OBVIOUS
  <2> QED
    BY <1>3, <2>1 DEF TurnRow, AsTurn, Statement
<1>5. PICK one : one = <<t>>
  OBVIOUS
<1>6. one \in Seq(Statement) /\ DOMAIN one = {1} /\ one[1] = t
  BY <1>4, <1>5
<1>7. WithoutSessions(one) = one /\ WithoutSessions(said) = said
  <2>1. (\A k \in DOMAIN one : one[k].kind # "session") /\ (\A k \in DOMAIN said : said[k].kind # "session")
    BY <1>2, <1>4, <1>6
  <2> QED
    BY <1>6, <2>1, NoSessions
<1>8. WithoutSessions(one \o said) = one \o said
  BY <1>6, <1>7, NoSessions
<1> QED
  BY <1>1, <1>3, <1>5, <1>8 DEF ReadOf

\* Only the job of a review writes it while it runs: what is left of its save,
\* and that a completed review is saved with its whole transcript.
JobsWrite ==
  \A r \in Reviews :
    /\ review[r] = r
    /\ job[r] # "saving" => todo[r] = <<>>
    /\ job[r] \in {"working", "marking"} => status[r] = "Running"
    /\ r \notin active => job[r] = "done"
    /\ todo[r] # <<>> /\ Head(todo[r]).kind = "review" =>
         /\ status[r] = "Running"
         /\ Head(todo[r]).status = "Completed" => Tail(todo[r]) = Transcript

\* A load writes only once the job is gone, and marks the review first.
LoadsMark ==
  \A p \in Loads : todo[p] # <<>> =>
    /\ review[p] \notin active
    /\ IF Head(todo[p]).kind = "review" THEN Head(todo[p]).status = "Failed"
                                        ELSE status[review[p]] = "Failed"

\* The turn a writer inserted last is of its review.
ParentIsOfReview ==
  \A w \in Writers : parent[w] \in DOMAIN turns => turns[parent[w]].review = review[w]

\* What is stored of a completed review and what its job still has to store are
\* the transcript; a message that is next belongs to the last turn.
StoredSoFar ==
  \A r \in Reviews : errors = 0 /\ status[r] = "Completed" =>
    /\ Stored(turns, messages, r) \o WithoutSessions(todo[r]) = WithoutSessions(Transcript)
    /\ todo[r] # <<>> /\ Head(todo[r]).kind = "message" =>
         /\ PlacesOf(turns, r) # <<>>
         /\ parent[r] = PlacesOf(turns, r)[Len(PlacesOf(turns, r))]

\* What a load that began after the save has read and what it still has to read
\* are the transcript.
LoadSees(p) ==
  LET r == review[p] IN
  /\ load[p].pc = "messages" =>
       \A k \in DOMAIN load[p].queue : turns[load[p].queue[k]].review = r
  /\ load[p].whole => status[r] # "Running"
  /\ load[p].whole /\ status[r] = "Completed" =>
       /\ todo[r] = <<>>
       /\ Stored(turns, messages, r) = WithoutSessions(Transcript)
       /\ load[p].pc = "turns" => WithoutSessions(load[p].read) = <<>>
       /\ load[p].pc = "messages" =>
            WithoutSessions(load[p].read) \o ReadAll(turns, messages, load[p].queue)
              = WithoutSessions(Transcript)
       /\ load[p].pc = "check" => WithoutSessions(load[p].read) = WithoutSessions(Transcript)
LoadsSee == \A p \in Loads : LoadSees(p)

LoadInv == JobsWrite /\ LoadsMark /\ ParentIsOfReview /\ StoredSoFar /\ LoadsSee

\* Before any job runs.
LEMMA LoadStarts == CascadeInit => LoadInv
<1> SUFFICES ASSUME CascadeInit PROVE LoadInv
  OBVIOUS
<1>1. /\ turns = <<>> /\ DOMAIN <<>> = {} /\ active = Reviews
      /\ \A r \in Reviews : status[r] = "Running" /\ job[r] = "working" /\ r \in Writers
      /\ \A w \in Writers : todo[w] = <<>>
      /\ \A p \in Loads : load[p] = NoLoad /\ p \in Writers
      /\ \A r \in Reviews : review[r] = r
  BY DEF CascadeInit, Writers
<1>2. JobsWrite /\ LoadsMark /\ ParentIsOfReview /\ StoredSoFar
  BY <1>1 DEF JobsWrite, LoadsMark, ParentIsOfReview, StoredSoFar
<1>3. \A p \in Loads : load[p].pc = "idle" /\ load[p].whole = FALSE
  BY <1>1 DEF NoLoad
<1>4. LoadsSee
  BY <1>3 DEF LoadsSee, LoadSees
<1> QED
  BY <1>2, <1>4 DEF LoadInv

\* A writer that is not the job of the review it writes is a load that marks it.
LEMMA WriterIsALoad ==
  ASSUME JobsWrite, LoadsMark, NEW w \in Writers, NEW r \in Reviews, todo[w] # <<>>,
         review[w] = r, w # r
  PROVE  /\ w \in Loads /\ job[r] = "done" /\ todo[r] = <<>>
         /\ IF Head(todo[w]).kind = "review" THEN Head(todo[w]).status = "Failed"
                                             ELSE status[r] = "Failed"
<1>1. w \in Loads
  BY DEF Writers, JobsWrite
<1>2. r \notin active /\ IF Head(todo[w]).kind = "review" THEN Head(todo[w]).status = "Failed"
                                                         ELSE status[r] = "Failed"
  BY <1>1 DEF LoadsMark
<1> QED
  BY <1>1, <1>2 DEF JobsWrite

\* What a statement writes, and who.
LEMMA StatementWrites ==
  ASSUME CascadeInv, NEW w \in Writers, Execute(w)
  PROVE  \E s \in Statement :
           /\ todo[w] # <<>> /\ s = Head(todo[w]) /\ todo[w] \in Saves /\ todo'[w] = Tail(todo[w])
           /\ \A v \in Writers : v # w => todo'[v] = todo[v]
           /\ UNCHANGED <<active, job, review, load, errors>>
           /\ s.kind = "review" =>
                /\ \A r \in Reviews : status'[r] = IF r = review[w] THEN s.status ELSE status[r]
                /\ UNCHANGED <<turns, messages, parent>>
           /\ s.kind = "session" => UNCHANGED <<status, turns, messages, parent>>
           /\ s.kind = "turn" =>
                /\ turns' = Append(turns, [review |-> review[w], agent |-> s.agent, index |-> s.index])
                /\ parent' = [parent EXCEPT ![w] = Len(turns')]
                /\ UNCHANGED <<status, messages>>
           /\ s.kind = "message" =>
                /\ messages' = Append(messages, [turn |-> parent[w], agent |-> s.agent, index |-> s.index])
                /\ UNCHANGED <<status, turns, parent>>
<1>1. /\ todo[w] # <<>> /\ todo' = [todo EXCEPT ![w] = Tail(@)]
      /\ UNCHANGED <<active, job, review, load, errors>>
  BY DEF Execute
<1>2. todo \in [Writers -> Saves] /\ status \in [Reviews -> {"Running", "Completed", "Failed"}]
  BY DEF CascadeInv, WritersAreTyped, TablesAreTyped
<1>3. PICK s \in Statement : s = Head(todo[w])
  BY <1>1, <1>2, RestOfSave
<1>4. todo'[w] = Tail(todo[w]) /\ \A v \in Writers : v # w => todo'[v] = todo[v]
  BY <1>1, <1>2
<1>5. \/ s.kind = "review" /\ UpsertReview(review[w], s)
      \/ s.kind = "session" /\ UpsertSession(review[w], s)
      \/ s.kind = "turn" /\ InsertTurn(w, s)
      \/ s.kind = "message" /\ InsertMessage(w, s)
  BY <1>3 DEF Execute
<1>6. s.kind = "review" =>
        /\ \A r \in Reviews : status'[r] = IF r = review[w] THEN s.status ELSE status[r]
        /\ UNCHANGED <<turns, messages, parent>>
  BY <1>2, <1>5 DEF UpsertReview
<1>7. s.kind = "session" => UNCHANGED <<status, turns, messages, parent>>
  BY <1>5 DEF UpsertSession
<1>8. s.kind = "turn" =>
        /\ turns' = Append(turns, [review |-> review[w], agent |-> s.agent, index |-> s.index])
        /\ parent' = [parent EXCEPT ![w] = Len(turns')]
        /\ UNCHANGED <<status, messages>>
  BY <1>5 DEF InsertTurn
<1>9. s.kind = "message" =>
        /\ messages' = Append(messages, [turn |-> parent[w], agent |-> s.agent, index |-> s.index])
        /\ UNCHANGED <<status, turns, parent>>
  BY <1>5 DEF InsertMessage
<1> QED
  BY <1>1, <1>2, <1>3, <1>4, <1>6, <1>7, <1>8, <1>9, Zenon

\* What the other writers do to a review: nothing, unless they mark it as failed.
LEMMA OthersWrite ==
  ASSUME CascadeInv, JobsWrite, LoadsMark, ParentIsOfReview, NEW w \in Writers, Execute(w),
         NEW r \in Reviews, w # r
  PROVE  /\ todo'[r] = todo[r] /\ parent'[r] = parent[r]
         /\ status'[r] = status[r] \/ (status'[r] = "Failed" /\ job[r] = "done")
         /\ status'[r] # "Failed" =>
              /\ PlacesOf(turns, r)' = PlacesOf(turns, r)
              /\ Stored(turns, messages, r)' = Stored(turns, messages, r)
              /\ \A q \in Seq(DOMAIN turns) :
                   (\A k \in DOMAIN q : turns[q[k]].review = r) =>
                     ReadAll(turns', messages', q) = ReadAll(turns, messages, q)
<1>1. PICK s \in Statement :
        /\ todo[w] # <<>> /\ s = Head(todo[w])
        /\ \A v \in Writers : v # w => todo'[v] = todo[v]
        /\ s.kind = "review" =>
             /\ \A q \in Reviews : status'[q] = IF q = review[w] THEN s.status ELSE status[q]
             /\ UNCHANGED <<turns, messages, parent>>
        /\ s.kind = "session" => UNCHANGED <<status, turns, messages, parent>>
        /\ s.kind = "turn" =>
             /\ turns' = Append(turns, [review |-> review[w], agent |-> s.agent, index |-> s.index])
             /\ parent' = [parent EXCEPT ![w] = Len(turns')]
             /\ UNCHANGED <<status, messages>>
        /\ s.kind = "message" =>
             /\ messages' = Append(messages, [turn |-> parent[w], agent |-> s.agent, index |-> s.index])
             /\ UNCHANGED <<status, turns, parent>>
  BY StatementWrites, Zenon
<1>2. /\ s.kind \in {"review", "session", "turn", "message"}
      /\ s.kind # "review" => s.agent \in Agents
      /\ s.kind \in {"turn", "message"} => s.index \in 1 .. TurnCount
  BY StatementKinds
<1>3. /\ turns \in Seq(TurnRow) /\ messages \in Seq(MessageRow)
      /\ \A j \in DOMAIN messages : messages[j].turn \in DOMAIN turns
      /\ parent \in [Writers -> Nat] /\ review[w] \in Reviews /\ r \in Writers
  BY DEF CascadeInv, TablesAreTyped, WritersAreTyped, MessageRow, Writers
<1>4. todo'[r] = todo[r] /\ parent'[r] = parent[r]
  BY <1>1, <1>2, <1>3
<1>5. status'[r] = status[r] \/ (status'[r] = "Failed" /\ job[r] = "done")
  <2>1. CASE s.kind = "review" /\ review[w] = r
    BY <1>1, <2>1, WriterIsALoad
  <2>2. CASE ~(s.kind = "review" /\ review[w] = r)
    BY <1>1, <1>2, <2>2
  <2> QED
    BY <2>1, <2>2
<1>6. ASSUME status'[r] # "Failed", s.kind \in {"turn", "message"} PROVE review[w] # r
  BY <1>1, <1>6, WriterIsALoad
<1>7. CASE s.kind \in {"review", "session"}
  BY <1>1, <1>4, <1>5, <1>7
<1>8. CASE s.kind = "turn"
  <2> SUFFICES ASSUME status'[r] # "Failed"
               PROVE  /\ PlacesOf(turns', r) = PlacesOf(turns, r)
                      /\ Stored(turns', messages, r) = Stored(turns, messages, r)
                      /\ \A q \in Seq(DOMAIN turns) :
                           ReadAll(turns', messages, q) = ReadAll(turns, messages, q)
    BY <1>1, <1>4, <1>5, <1>8
  <2>1. PICK rec : rec = [review |-> review[w], agent |-> s.agent, index |-> s.index]
    OBVIOUS
  <2>2. rec \in TurnRow /\ rec.review # r /\ turns' = Append(turns, rec)
    BY <1>1, <1>2, <1>3, <1>6, <1>8, <2>1 DEF TurnRow
  <2>3. PICK us : us = turns'
    OBVIOUS
  <2>4. us = Append(turns, rec)
    BY <2>2, <2>3
  <2>5. PlacesOf(us, r) = PlacesOf(turns, r) /\ Stored(us, messages, r) = Stored(turns, messages, r)
    <3>1. rec \in TurnRow /\ rec.review # r
      BY <2>2
    <3>2. /\ turns \in Seq(TurnRow) /\ messages \in Seq(MessageRow)
          /\ \A j \in DOMAIN messages : messages[j].turn \in DOMAIN turns
      BY <1>3
    <3>3. PlacesOf(us, r) = PlacesOf(turns, r)
      BY <2>4, <3>1, <3>2, TurnIsListed
    <3>4. Stored(us, messages, r) = Stored(turns, messages, r)
      BY <2>4, <3>1, <3>2, TurnIsElsewhere
    <3> QED
      BY <3>3, <3>4
  <2>6. \A q \in Seq(DOMAIN turns) : ReadAll(us, messages, q) = ReadAll(turns, messages, q)
    BY <1>3, <2>2, <2>4, TurnIsUnread
  <2> QED
    BY <2>3, <2>5, <2>6
<1>9. CASE s.kind = "message"
  <2> SUFFICES ASSUME status'[r] # "Failed"
               PROVE  /\ Stored(turns, messages', r) = Stored(turns, messages, r)
                      /\ \A q \in Seq(DOMAIN turns) :
                           (\A k \in DOMAIN q : turns[q[k]].review = r) =>
                             ReadAll(turns, messages', q) = ReadAll(turns, messages, q)
    BY <1>1, <1>4, <1>5, <1>9
  <2>1. PICK m : m = [turn |-> parent[w], agent |-> s.agent, index |-> s.index]
    OBVIOUS
  <2>2. m \in MessageRow /\ m.turn = parent[w] /\ messages' = Append(messages, m)
    BY <1>1, <1>2, <1>3, <1>9, <2>1 DEF MessageRow
  <2>3. parent[w] \in DOMAIN turns
    BY <1>1, <1>9 DEF CascadeInv, NextHasItsParent, HasItsParent
  <2>4. turns[m.turn].review # r
    BY <1>6, <1>9, <2>2, <2>3 DEF ParentIsOfReview
  <2>5. PICK ns : ns = messages'
    OBVIOUS
  <2>6. ns = Append(messages, m)
    BY <2>2, <2>5
  <2>7. Stored(turns, ns, r) = Stored(turns, messages, r)
    BY <1>3, <2>2, <2>4, <2>6, MessageIsStored
  <2>8. ASSUME NEW q \in Seq(DOMAIN turns), \A k \in DOMAIN q : turns[q[k]].review = r
        PROVE  ReadAll(turns, ns, q) = ReadAll(turns, messages, q)
    <3>1. \A k \in DOMAIN q : q[k] # m.turn
      BY <2>4, <2>8
    <3> QED
      BY <1>3, <2>2, <2>6, <3>1, MessageIsUnread
  <2> QED
    BY <2>5, <2>7, <2>8
<1> QED
  BY <1>2, <1>7, <1>8, <1>9

\* A job's statements, and what its review is at.
LEMMA JobsWriteKeeps ==
  ASSUME CascadeInv, JobsWrite, LoadsMark, ParentIsOfReview, [CascadeNext]_cascadeVars
  PROVE  JobsWrite'
<1>1. /\ todo \in [Writers -> Saves] /\ job \in [Reviews -> {"working", "saving", "marking", "done"}]
      /\ review \in [Writers -> Reviews] /\ active \subseteq Reviews
  BY DEF CascadeInv, WritersAreTyped
<1>2. ASSUME NEW w \in Writers, Execute(w) PROVE JobsWrite'
  <2>1. PICK s \in Statement :
          /\ todo[w] # <<>> /\ s = Head(todo[w]) /\ todo[w] \in Saves /\ todo'[w] = Tail(todo[w])
          /\ \A v \in Writers : v # w => todo'[v] = todo[v]
          /\ UNCHANGED <<active, job, review, load, errors>>
    BY <1>2, StatementWrites, Zenon
  <2>2. ASSUME NEW r \in Reviews, r # w, job[r] # "done" PROVE todo'[r] = todo[r] /\ status'[r] = status[r]
    BY <1>2, <2>2, OthersWrite
  <2>3. ASSUME NEW r \in Reviews, r # w, job[r] = "done" PROVE todo'[r] = <<>> /\ todo[r] = <<>>
    <3>1. todo[r] = <<>> /\ r \in Writers
      BY <2>3 DEF JobsWrite, Writers
    <3> QED
      BY <2>1, <2>3, <3>1
  <2>4. ASSUME w \in Reviews
        PROVE  job[w] = "saving" /\ (todo'[w] # <<>> => Head(todo'[w]).kind # "review")
    <3>1. job[w] = "saving"
      BY <2>1, <2>4 DEF JobsWrite
    <3>2. Tail(todo[w]) # <<>> => Head(Tail(todo[w])).kind # "review"
      BY <2>1, RestOfSave
    <3> QED
      BY <2>1, <3>1, <3>2
  <2>5. ASSUME NEW r \in Reviews
        PROVE  /\ review'[r] = r
               /\ job'[r] # "saving" => todo'[r] = <<>>
               /\ job'[r] \in {"working", "marking"} => status'[r] = "Running"
               /\ r \notin active' => job'[r] = "done"
               /\ todo'[r] # <<>> /\ Head(todo'[r]).kind = "review" =>
                    /\ status'[r] = "Running"
                    /\ Head(todo'[r]).status = "Completed" => Tail(todo'[r]) = Transcript
    <3>1. CASE r = w
      BY <2>1, <2>4, <3>1 DEF JobsWrite
    <3>2. CASE r # w /\ job[r] # "done"
      BY <2>1, <2>2, <3>2 DEF JobsWrite
    <3>3. CASE r # w /\ job[r] = "done"
      BY <2>1, <2>3, <3>3 DEF JobsWrite
    <3> QED
      BY <3>1, <3>2, <3>3
  <2> QED
    BY <2>5 DEF JobsWrite
<1>3. ASSUME NEW w \in Writers, StatementFails(w) PROVE JobsWrite'
  <2>1. /\ todo[w] # <<>> /\ todo' = [todo EXCEPT ![w] = <<>>] /\ UNCHANGED <<active, review, status>>
        /\ job' = IF w \in Reviews /\ job[w] = "saving" /\ status[w] = "Running"
                    THEN [job EXCEPT ![w] = "marking"] ELSE job
    BY <1>3 DEF StatementFails, tables
  <2>2. \A r \in Reviews : /\ r \in Writers
                           /\ todo'[r] = IF r = w THEN <<>> ELSE todo[r]
                           /\ r # w => job'[r] = job[r]
    BY <1>1, <2>1 DEF Writers
  <2>3. w \in Reviews => \/ job'[w] = job[w]
                         \/ job[w] = "saving" /\ status[w] = "Running" /\ job'[w] = "marking"
    BY <1>1, <2>1
  <2> QED
    BY <2>1, <2>2, <2>3 DEF JobsWrite
<1>4. ASSUME NEW w \in Reviews, Save(w) \/ Mark(w) PROVE JobsWrite'
  <2>1. /\ job[w] \in {"working", "marking"} /\ job' = [job EXCEPT ![w] = "saving"]
        /\ UNCHANGED <<active, review, status>>
    BY <1>4 DEF Save, Mark, tables
  <2>2. \E s \in {SaveReview("Completed", Transcript), SaveReview("Failed", <<>>)} :
          todo' = [todo EXCEPT ![w] = s]
    BY <1>4 DEF Save, Mark
  <2>3. PICK st \in {"Completed", "Failed"}, c \in Children :
          todo' = [todo EXCEPT ![w] = SaveReview(st, c)] /\ (st = "Completed" => c = Transcript)
    BY <2>2, TranscriptIsChildren, NothingToJoin
  <2>4. PICK s : s = SaveReview(st, c)
    OBVIOUS
  <2>5. Head(s).status = st /\ Tail(s) = c
    <3>1. PICK h : h = Upsert(st)
      OBVIOUS
    <3>2. c \in Seq(Statement) /\ h \in Statement /\ h.status = st
      BY <3>1 DEF Children, Chains, Upsert, Statement
    <3>3. s = <<h>> \o c
      BY <2>4, <3>1 DEF SaveReview
    <3>4. Head(s) = h /\ Tail(s) = c
      BY <3>2, <3>3
    <3> QED
      BY <3>2, <3>4
  <2>6. todo'[w] = s /\ \A r \in Reviews : r # w => todo'[r] = todo[r] /\ job'[r] = job[r]
    BY <1>1, <2>1, <2>3, <2>4 DEF Writers
  <2>7. job'[w] = "saving" /\ status[w] = "Running" /\ (w \notin active => job[w] = "done")
    BY <1>1, <2>1 DEF JobsWrite
  <2> QED
    BY <2>1, <2>3, <2>5, <2>6, <2>7 DEF JobsWrite
<1>5. ASSUME NEW w \in Reviews, Unregister(w) PROVE JobsWrite'
  <2>1. /\ todo[w] = <<>> /\ job' = [job EXCEPT ![w] = "done"] /\ active' = active \ {w}
        /\ UNCHANGED <<todo, review, status>>
    BY <1>5 DEF Unregister, tables
  <2>2. job'[w] = "done" /\ \A r \in Reviews : r # w => job'[r] = job[r] /\ (r \in active' <=> r \in active)
    BY <1>1, <2>1
  <2> QED
    BY <2>1, <2>2 DEF JobsWrite
<1>6. ASSUME NEW p \in Loads,
             \/ LoadRow(p) \/ LoadSessions(p) \/ LoadTurns(p) \/ LoadMessages(p)
             \/ LoadEnds(p) \/ Reconcile(p) \/ Answer(p)
      PROVE  JobsWrite'
  <2>1. UNCHANGED <<active, job, review, status>>
    BY <1>6 DEF LoadRow, LoadSessions, LoadTurns, LoadMessages, LoadEnds, Reconcile, Answer, tables
  <2>2. todo' = todo \/ \E s : todo' = [todo EXCEPT ![p] = s]
    BY <1>6 DEF LoadRow, LoadSessions, LoadTurns, LoadMessages, LoadEnds, Reconcile, Answer
  <2>3. \A r \in Reviews : r # p /\ todo'[r] = todo[r]
    BY <1>1, <2>2, CascadeAssumption DEF Writers
  <2>4. \A r \in Reviews : /\ todo'[r] = todo[r] /\ status'[r] = status[r] /\ job'[r] = job[r]
                           /\ review'[r] = review[r] /\ (r \in active' <=> r \in active)
    BY <2>1, <2>3
  <2> QED
    BY <2>4 DEF JobsWrite
<1>7. CASE UNCHANGED cascadeVars
  BY <1>7 DEF cascadeVars, tables, JobsWrite
<1> QED
  BY <1>2, <1>3, <1>4, <1>5, <1>6, <1>7 DEF CascadeNext

\* All steps but those of the statements leave the tables alone.
LEMMA OnlyStatementsWrite ==
  ASSUME CascadeInv, [CascadeNext]_cascadeVars, \A w \in Writers : ~Execute(w)
  PROVE  UNCHANGED <<status, session, turns, messages, parent, review>>
<1>1. ASSUME NEW w \in Writers, StatementFails(w) PROVE UNCHANGED <<tables, parent, review>>
  BY <1>1 DEF StatementFails
<1>2. ASSUME NEW r \in Reviews, Save(r) \/ Mark(r) \/ Unregister(r) PROVE UNCHANGED <<tables, parent, review>>
  BY <1>2 DEF Save, Mark, Unregister
<1>3. ASSUME NEW p \in Loads,
             \/ LoadRow(p) \/ LoadSessions(p) \/ LoadTurns(p) \/ LoadMessages(p)
             \/ LoadEnds(p) \/ Reconcile(p) \/ Answer(p)
      PROVE  UNCHANGED <<tables, parent, review>>
  BY <1>3 DEF LoadRow, LoadSessions, LoadTurns, LoadMessages, LoadEnds, Reconcile, Answer
<1>4. CASE UNCHANGED cascadeVars
  BY <1>4 DEF cascadeVars, tables
<1> QED
  BY <1>1, <1>2, <1>3, <1>4 DEF CascadeNext, tables

\* A load marks only what no job is at.
LEMMA LoadsMarkKeeps ==
  ASSUME CascadeInv, JobsWrite, LoadsMark, ParentIsOfReview, [CascadeNext]_cascadeVars
  PROVE  LoadsMark'
<1>1. /\ todo \in [Writers -> Saves] /\ job \in [Reviews -> {"working", "saving", "marking", "done"}]
      /\ review \in [Writers -> Reviews] /\ active \subseteq Reviews
  BY DEF CascadeInv, WritersAreTyped
<1>2. ASSUME NEW w \in Writers, Execute(w) PROVE LoadsMark'
  <2>1. PICK s \in Statement :
          /\ todo[w] # <<>> /\ s = Head(todo[w]) /\ todo[w] \in Saves /\ todo'[w] = Tail(todo[w])
          /\ \A v \in Writers : v # w => todo'[v] = todo[v]
          /\ UNCHANGED <<active, job, review, load, errors>>
          /\ s.kind = "review" =>
               \A r \in Reviews : status'[r] = IF r = review[w] THEN s.status ELSE status[r]
          /\ s.kind = "session" => UNCHANGED status
          /\ s.kind = "turn" => UNCHANGED status
          /\ s.kind = "message" => UNCHANGED status
    BY <1>2, StatementWrites, Zenon
  <2>2. s.kind \in {"review", "session", "turn", "message"}
    BY StatementKinds
  <2>3. ASSUME NEW p \in Loads, todo'[p] # <<>>
        PROVE  /\ review'[p] \notin active'
               /\ IF Head(todo'[p]).kind = "review" THEN Head(todo'[p]).status = "Failed"
                                                   ELSE status'[review'[p]] = "Failed"
    <3>1. PICK r \in Reviews : r = review[p] /\ p \in Writers
      BY <1>1 DEF Writers
    <3>2. CASE p = w
      <4>1. r \notin active /\ IF s.kind = "review" THEN s.status = "Failed" ELSE status[r] = "Failed"
        BY <2>1, <3>1, <3>2 DEF LoadsMark
      <4>2. Head(todo'[p]).kind # "review"
        BY <2>1, <2>3, <3>2, RestOfSave, ZenonT(40)
      <4>3. status'[r] = "Failed"
        BY <2>1, <2>2, <3>1, <3>2, <4>1
      <4> QED
        BY <2>1, <3>1, <4>1, <4>2, <4>3
    <3>3. CASE p # w
      <4>1. todo'[p] = todo[p] /\ r \notin active
        BY <2>1, <2>3, <3>1, <3>3 DEF LoadsMark
      <4>2. job[r] = "done" /\ todo[r] = <<>>
        BY <4>1 DEF JobsWrite
      <4>3. w # r
        BY <2>1, <4>2
      <4>4. status'[r] = status[r] \/ status'[r] = "Failed"
        BY <1>2, <4>3, OthersWrite
      <4> QED
        BY <2>1, <2>3, <3>1, <4>1, <4>4 DEF LoadsMark
    <3> QED
      BY <3>2, <3>3
  <2> QED
    BY <2>3 DEF LoadsMark
<1>3. ASSUME \A w \in Writers : ~Execute(w) PROVE LoadsMark'
  <2>1. UNCHANGED <<status, review>>
    BY <1>3, OnlyStatementsWrite
  <2>2. ASSUME NEW p \in Loads, todo'[p] = todo[p] \/ todo'[p] = <<>>, active' \subseteq active
        PROVE  todo'[p] # <<>> =>
                 /\ review'[p] \notin active'
                 /\ IF Head(todo'[p]).kind = "review" THEN Head(todo'[p]).status = "Failed"
                                                     ELSE status'[review'[p]] = "Failed"
    BY <2>1, <2>2 DEF LoadsMark
  <2>3. ASSUME NEW w \in Writers, StatementFails(w) PROVE LoadsMark'
    <3>1. todo' = [todo EXCEPT ![w] = <<>>] /\ active' = active
      BY <2>3 DEF StatementFails
    <3>2. \A p \in Loads : todo'[p] = todo[p] \/ todo'[p] = <<>>
      BY <1>1, <3>1 DEF Writers
    <3> QED
      BY <2>2, <3>1, <3>2 DEF LoadsMark
  <2>4. ASSUME NEW r \in Reviews, Save(r) \/ Mark(r) \/ Unregister(r) PROVE LoadsMark'
    <3>1. active' \subseteq active /\ (todo' = todo \/ \E s : todo' = [todo EXCEPT ![r] = s])
      BY <2>4 DEF Save, Mark, Unregister
    <3>2. \A p \in Loads : todo'[p] = todo[p]
      BY <1>1, <3>1, CascadeAssumption DEF Writers
    <3> QED
      BY <2>2, <3>1, <3>2 DEF LoadsMark
  <2>5. ASSUME NEW p \in Loads, LoadRow(p) \/ LoadSessions(p) \/ LoadTurns(p) \/ LoadMessages(p)
                                \/ LoadEnds(p) \/ Answer(p)
        PROVE  LoadsMark'
    <3>1. UNCHANGED <<active, todo>>
      BY <2>5 DEF LoadRow, LoadSessions, LoadTurns, LoadMessages, LoadEnds, Answer
    <3> QED
      BY <2>2, <3>1 DEF LoadsMark
  <2>6. ASSUME NEW p \in Loads, Reconcile(p) PROVE LoadsMark'
    <3>1. CASE UNCHANGED todo
      <4>1. UNCHANGED active
        BY <2>6 DEF Reconcile
      <4> QED
        BY <2>2, <3>1, <4>1 DEF LoadsMark
    <3>2. CASE review[p] \notin active /\ todo' = [todo EXCEPT ![p] = SaveReview("Failed", load[p].read)]
      <4>1. UNCHANGED active /\ load[p].read \in Children /\ p \in Writers
        BY <2>6 DEF Reconcile, CascadeInv, LoadsAreTyped, Writers
      <4>2. PICK c \in Seq(Statement) : c = load[p].read
        BY <4>1 DEF Children, Chains
      <4>3. PICK h : h = Upsert("Failed")
        OBVIOUS
      <4>4. h \in Statement /\ h.kind = "review" /\ h.status = "Failed"
        BY <4>3 DEF Upsert, Statement
      <4>5. Head(<<h>> \o c) = h
        BY <4>4
      <4>6. todo'[p] = <<h>> \o c
        BY <1>1, <3>2, <4>1, <4>2, <4>3 DEF SaveReview
      <4>7. \A q \in Loads : q # p => todo'[q] = todo[q]
        BY <1>1, <3>2 DEF Writers
      <4>8. ASSUME NEW q \in Loads, todo'[q] # <<>>
            PROVE  /\ review'[q] \notin active'
                   /\ IF Head(todo'[q]).kind = "review" THEN Head(todo'[q]).status = "Failed"
                                                       ELSE status'[review'[q]] = "Failed"
        <5>1. CASE q = p
          BY <2>1, <3>2, <4>1, <4>4, <4>5, <4>6, <5>1
        <5>2. CASE q # p
          BY <2>2, <4>1, <4>7, <4>8, <5>2
        <5> QED
          BY <5>1, <5>2
      <4> QED
        BY <4>8 DEF LoadsMark
    <3> QED
      BY <2>6, <3>1, <3>2 DEF Reconcile
  <2>7. CASE UNCHANGED cascadeVars
    <3>1. UNCHANGED <<active, todo>>
      BY <2>7 DEF cascadeVars
    <3> QED
      BY <2>2, <3>1 DEF LoadsMark
  <2> QED
    BY <1>3, <2>3, <2>4, <2>5, <2>6, <2>7 DEF CascadeNext
<1> QED
  BY <1>2, <1>3

\* A turn is inserted under the review that its writer works on.
LEMMA ParentKeeps ==
  ASSUME CascadeInv, ParentIsOfReview, [CascadeNext]_cascadeVars
  PROVE  ParentIsOfReview'
<1>1. ASSUME NEW w \in Writers, Execute(w) PROVE ParentIsOfReview'
  <2>1. PICK s \in Statement :
          /\ UNCHANGED <<active, job, review, load, errors>>
          /\ s.kind = "review" => UNCHANGED <<turns, messages, parent>>
          /\ s.kind = "session" => UNCHANGED <<status, turns, messages, parent>>
          /\ s.kind = "turn" =>
               /\ turns' = Append(turns, [review |-> review[w], agent |-> s.agent, index |-> s.index])
               /\ parent' = [parent EXCEPT ![w] = Len(turns')]
               /\ UNCHANGED <<status, messages>>
          /\ s.kind = "message" => UNCHANGED <<status, turns, parent>>
    BY <1>1, StatementWrites, Zenon
  <2>2. s.kind \in {"review", "session", "turn", "message"}
    BY StatementKinds
  <2>3. CASE s.kind # "turn"
    BY <2>1, <2>2, <2>3 DEF ParentIsOfReview
  <2>4. CASE s.kind = "turn"
    <3>1. PICK rec : rec = [review |-> review[w], agent |-> s.agent, index |-> s.index]
      OBVIOUS
    <3>2. rec.review = review[w] /\ rec.agent = s.agent /\ turns' = Append(turns, rec)
      BY <2>1, <2>4, <3>1
    <3>3. PICK n \in Nat : n = Len(turns) /\ DOMAIN turns = 1 .. n /\ turns \in Seq(TurnRow)
      <4>1. turns \in Seq(TurnRow)
        BY DEF CascadeInv, TablesAreTyped
      <4> QED
        BY <4>1
    <3>4. Len(turns') = n + 1 /\ turns'[n + 1] = rec /\ \A i \in 1 .. n : turns'[i] = turns[i]
      BY <3>2, <3>3
    <3>5. parent \in [Writers -> Nat] /\ \A v \in Writers : parent[v] \in {0} \cup DOMAIN turns
      BY DEF CascadeInv, WritersAreTyped
    <3>6. parent'[w] = n + 1 /\ \A v \in Writers : v # w => parent'[v] = parent[v]
      BY <2>1, <2>4, <3>4, <3>5
    <3>7. ASSUME NEW v \in Writers, parent'[v] \in DOMAIN turns'
          PROVE  turns'[parent'[v]].review = review[v]
      <4>1. CASE v = w
        BY <3>2, <3>4, <3>6, <4>1
      <4>2. CASE v # w
        <5>1. parent'[v] = parent[v] /\ (parent[v] = 0 \/ parent[v] \in 1 .. n)
          BY <3>3, <3>5, <3>6, <4>2
        <5>2. parent[v] # 0
          <6>1. DOMAIN turns' = 1 .. n + 1
            BY <3>2, <3>3
          <6> QED
            BY <3>7, <5>1, <6>1
        <5>3. turns'[parent[v]] = turns[parent[v]] /\ parent[v] \in DOMAIN turns
          BY <3>3, <3>4, <5>1, <5>2
        <5> QED
          BY <5>1, <5>3 DEF ParentIsOfReview
      <4> QED
        BY <4>1, <4>2
    <3> QED
      BY <2>1, <3>7 DEF ParentIsOfReview
  <2> QED
    BY <2>3, <2>4
<1>2. ASSUME \A w \in Writers : ~Execute(w) PROVE ParentIsOfReview'
  <2>1. UNCHANGED <<turns, parent, review>>
    BY <1>2, OnlyStatementsWrite
  <2> QED
    BY <2>1 DEF ParentIsOfReview
<1> QED
  BY <1>1, <1>2

\* A review that still runs has no turns.
LEMMA NothingStored ==
  ASSUME CascadeInv, NEW r \in Reviews, session[r] = 0
  PROVE  PlacesOf(turns, r) = <<>> /\ Stored(turns, messages, r) = <<>>
<1>1. turns \in Seq(TurnRow) /\ messages \in Seq(MessageRow)
  BY DEF CascadeInv, TablesAreTyped, MessageRow
<1>2. \A i \in DOMAIN turns : turns[i].review # r
  BY DEF CascadeInv, ChildrenHaveParents
<1>3. PlacesOf(turns, r) = <<>>
  BY <1>1, <1>2, PlacesAreTurns
<1>4. ReadAll(turns, messages, <<>>) = <<>>
  <2>1. <<>> \in Seq(DOMAIN turns)
    OBVIOUS
  <2> QED
    BY <1>1, <2>1, ReadsOn
<1> QED
  BY <1>3, <1>4 DEF Stored

\* The job's own statements move what it has to store to what is stored.
LEMMA JobStores ==
  ASSUME CascadeInv, LoadInv, CascadeInv', NEW r \in Reviews, Execute(r),
         errors' = 0, status'[r] = "Completed"
  PROVE  /\ Stored(turns, messages, r)' \o WithoutSessions(todo[r])' = WithoutSessions(Transcript)
         /\ todo'[r] # <<>> /\ Head(todo'[r]).kind = "message" =>
              /\ PlacesOf(turns, r)' # <<>>
              /\ parent'[r] = PlacesOf(turns, r)'[Len(PlacesOf(turns, r)')]
<1>1. r \in Writers /\ review[r] = r
  BY DEF Writers, LoadInv, JobsWrite
<1>2. PICK s \in Statement :
        /\ todo[r] # <<>> /\ s = Head(todo[r]) /\ todo[r] \in Saves /\ todo'[r] = Tail(todo[r])
        /\ errors' = errors
        /\ s.kind = "review" =>
             /\ \A q \in Reviews : status'[q] = IF q = review[r] THEN s.status ELSE status[q]
             /\ UNCHANGED <<turns, messages, parent>>
        /\ s.kind = "session" => UNCHANGED <<status, turns, messages, parent>>
        /\ s.kind = "turn" =>
             /\ turns' = Append(turns, [review |-> review[r], agent |-> s.agent, index |-> s.index])
             /\ parent' = [parent EXCEPT ![r] = Len(turns')]
             /\ UNCHANGED <<status, messages>>
        /\ s.kind = "message" =>
             /\ messages' = Append(messages, [turn |-> parent[r], agent |-> s.agent, index |-> s.index])
             /\ UNCHANGED <<status, turns, parent>>
  <2>1. UNCHANGED <<active, job, review, load, errors>> <=> /\ active' = active /\ job' = job
                                                           /\ review' = review /\ load' = load
                                                           /\ errors' = errors
    OBVIOUS
  <2> QED
    BY <1>1, <2>1, StatementWrites, Zenon
<1>3. /\ s.kind \in {"review", "session", "turn", "message"}
      /\ s.kind # "review" => s.agent \in Agents
      /\ s.kind \in {"turn", "message"} => s.index \in 1 .. TurnCount
  BY StatementKinds
<1>4. /\ turns \in Seq(TurnRow) /\ messages \in Seq(MessageRow)
      /\ \A j \in DOMAIN messages : messages[j].turn \in DOMAIN turns
      /\ parent \in [Writers -> Nat]
  BY DEF CascadeInv, TablesAreTyped, WritersAreTyped, MessageRow
<1>5. PICK rest \in Seq(Statement) : rest = Tail(todo[r]) /\ rest = todo'[r]
  BY <1>2, RestOfSave DEF Saves
<1>6. PICK stored \in Seq(Statement) : stored = Stored(turns, messages, r)
  BY <1>4, ReadIsTyped, PlacesAreTurns DEF Stored
<1>7. PICK left \in Seq(Statement) : left = WithoutSessions(rest)
  BY NoSessions
<1>8. /\ Head(rest).kind = "message" /\ rest # <<>> => s.kind \in {"turn", "message"}
  BY <1>2, <1>5, RestOfSave
<1>9. WithoutSessions(todo[r]) = IF s.kind = "session" THEN left ELSE <<s>> \o left
  <2>1. todo[r] \in Seq(Statement)
    BY <1>2 DEF Saves
  <2> QED
    BY <1>2, <1>5, <1>7, <2>1, FirstWithoutSessions
<1>10. s.kind # "review" => stored \o WithoutSessions(todo[r]) = WithoutSessions(Transcript)
  BY <1>2, <1>3, <1>6 DEF LoadInv, StoredSoFar
<1>11. CASE s.kind = "review"
  <2>1. status[r] = "Running" /\ rest = Transcript
    BY <1>1, <1>2, <1>5, <1>11 DEF LoadInv, JobsWrite
  <2>2. session[r] = 0
    BY <2>1 DEF CascadeInv, ChildrenHaveParents
  <2>3. Stored(turns', messages', r) = <<>>
    BY <1>2, <1>11, <2>2, NothingStored
  <2>4. <<>> \o left = left
    OBVIOUS
  <2> QED
    BY <1>5, <1>7, <1>8, <1>11, <2>1, <2>3, <2>4
<1>12. CASE s.kind = "session"
  <2>1. stored \o left = WithoutSessions(Transcript)
    BY <1>9, <1>10, <1>12
  <2> QED
    BY <1>2, <1>5, <1>6, <1>7, <1>8, <1>12, <2>1
<1>13. CASE s.kind = "turn"
  <2>1. PICK rec : rec = [review |-> review[r], agent |-> s.agent, index |-> s.index]
    OBVIOUS
  <2>2. rec \in TurnRow /\ rec.review = r /\ rec.agent = s.agent /\ rec.index = s.index
    BY <1>1, <1>3, <1>13, <2>1 DEF TurnRow
  <2>3. PICK us : us = turns'
    OBVIOUS
  <2>4. us = Append(turns, rec)
    BY <1>2, <1>13, <2>1, <2>3
  <2>5. Stored(us, messages, r) = Append(Stored(turns, messages, r), AsTurn(rec))
    <3>1. rec \in TurnRow /\ rec.review = r
      BY <2>2
    <3>2. /\ turns \in Seq(TurnRow) /\ messages \in Seq(MessageRow)
          /\ \A j \in DOMAIN messages : messages[j].turn \in DOMAIN turns
      BY <1>4
    <3> QED
      BY <2>4, <3>1, <3>2, TurnIsStored
  <2>6. PlacesOf(us, r) = Append(PlacesOf(turns, r), Len(turns) + 1)
    BY <1>4, <2>2, <2>4, TurnIsListed
  <2>7. AsTurn(rec) = s
    BY <1>13, <2>2 DEF AsTurn, Statement
  <2>8. Append(stored, s) \o left = stored \o (<<s>> \o left)
    <3>1. PICK one : one = <<s>>
      OBVIOUS
    <3>2. one \in Seq(Statement) /\ Append(stored, s) = stored \o one
      BY <3>1
    <3>3. (stored \o one) \o left = stored \o (one \o left)
      BY <3>2, JoinThree
    <3> QED
      BY <3>1, <3>2, <3>3
  <2>9. Stored(us, messages, r) \o left = WithoutSessions(Transcript)
    BY <1>6, <1>9, <1>10, <1>13, <2>5, <2>7, <2>8
  <2>10. parent'[r] = Len(turns) + 1
    <3>1. Len(us) = Len(turns) + 1
      BY <1>4, <2>2, <2>4
    <3> QED
      BY <1>1, <1>2, <1>4, <1>13, <2>3, <3>1
  <2>11. PlacesOf(us, r) # <<>> /\ PlacesOf(us, r)[Len(PlacesOf(us, r))] = Len(turns) + 1
    <3>1. PICK q \in Seq(Nat) : q = PlacesOf(turns, r)
      <4>1. PlacesOf(turns, r) \in Seq(DOMAIN turns) /\ DOMAIN turns \subseteq Nat
        BY <1>4, PlacesAreTurns
      <4> QED
        BY <4>1
    <3>2. PICK n \in Nat : n = Len(turns) + 1
      BY <1>4
    <3>3. PICK u : u = Append(q, n)
      OBVIOUS
    <3>4. u # <<>> /\ u[Len(u)] = n
      BY <3>3
    <3> QED
      BY <2>6, <3>1, <3>2, <3>3, <3>4
  <2> QED
    BY <1>2, <1>5, <1>7, <1>13, <2>3, <2>9, <2>10, <2>11
<1>14. CASE s.kind = "message"
  <2>1. PICK m : m = [turn |-> parent[r], agent |-> s.agent, index |-> s.index]
    OBVIOUS
  <2>2. m \in MessageRow /\ m.turn = parent[r] /\ m.agent = s.agent /\ m.index = s.index
    BY <1>1, <1>3, <1>4, <1>14, <2>1 DEF MessageRow
  <2>3. PICK ns : ns = messages'
    OBVIOUS
  <2>4. ns = Append(messages, m)
    BY <1>2, <1>14, <2>1, <2>3
  <2>5. PlacesOf(turns, r) # <<>> /\ parent[r] = PlacesOf(turns, r)[Len(PlacesOf(turns, r))]
    BY <1>2, <1>14 DEF LoadInv, StoredSoFar
  <2>6. Stored(turns, ns, r) = Append(Stored(turns, messages, r), AsMessage(m))
    <3>1. /\ m \in MessageRow /\ PlacesOf(turns, r) # <<>>
          /\ m.turn = PlacesOf(turns, r)[Len(PlacesOf(turns, r))]
      BY <2>2, <2>5
    <3>2. turns \in Seq(TurnRow) /\ messages \in Seq(MessageRow)
      BY <1>4
    <3> QED
      BY <2>4, <3>1, <3>2, MessageIsStored
  <2>7. AsMessage(m) = s
    BY <1>14, <2>2 DEF AsMessage, Statement
  <2>8. Append(stored, s) \o left = stored \o (<<s>> \o left)
    <3>1. PICK one : one = <<s>>
      OBVIOUS
    <3>2. one \in Seq(Statement) /\ Append(stored, s) = stored \o one
      BY <3>1
    <3>3. (stored \o one) \o left = stored \o (one \o left)
      BY <3>2, JoinThree
    <3> QED
      BY <3>1, <3>2, <3>3
  <2>9. Stored(turns, ns, r) \o left = WithoutSessions(Transcript)
    BY <1>6, <1>9, <1>10, <1>14, <2>6, <2>7, <2>8
  <2> QED
    BY <1>2, <1>5, <1>7, <1>14, <2>3, <2>5, <2>9
<1> QED
  BY <1>3, <1>11, <1>12, <1>13, <1>14

\* A completed review is being stored, or is.
LEMMA StoredKeeps ==
  ASSUME CascadeInv, LoadInv, CascadeInv', [CascadeNext]_cascadeVars
  PROVE  StoredSoFar'
<1>1. /\ todo \in [Writers -> Saves] /\ errors \in Nat /\ JobsWrite /\ LoadsMark /\ ParentIsOfReview
      /\ job \in [Reviews -> {"working", "saving", "marking", "done"}]
  BY CascadeAssumption DEF CascadeInv, WritersAreTyped, LoadInv
<1>2. ASSUME NEW w \in Writers, Execute(w) PROVE StoredSoFar'
  <2>1. errors' = errors
    BY <1>2 DEF Execute
  <2>2. ASSUME NEW r \in Reviews, errors' = 0, status'[r] = "Completed"
        PROVE  /\ Stored(turns, messages, r)' \o WithoutSessions(todo[r])' = WithoutSessions(Transcript)
               /\ todo'[r] # <<>> /\ Head(todo'[r]).kind = "message" =>
                    /\ PlacesOf(turns, r)' # <<>>
                    /\ parent'[r] = PlacesOf(turns, r)'[Len(PlacesOf(turns, r)')]
    <3>1. CASE r = w
      BY <1>2, <2>2, <3>1, JobStores
    <3>2. CASE r # w
      <4>1. /\ todo'[r] = todo[r] /\ parent'[r] = parent[r] /\ status'[r] = status[r]
            /\ PlacesOf(turns, r)' = PlacesOf(turns, r)
            /\ Stored(turns, messages, r)' = Stored(turns, messages, r)
        BY <1>1, <1>2, <2>2, <3>2, OthersWrite
      <4> QED
        BY <2>1, <2>2, <4>1 DEF LoadInv, StoredSoFar
    <3> QED
      BY <3>1, <3>2
  <2> QED
    BY <2>2 DEF StoredSoFar
<1>3. ASSUME \A w \in Writers : ~Execute(w) PROVE StoredSoFar'
  <2>1. UNCHANGED <<status, turns, messages, parent>>
    BY <1>3, OnlyStatementsWrite
  <2>2. ASSUME errors' = errors, \A r \in Reviews : status[r] = "Completed" => todo'[r] = todo[r]
        PROVE  StoredSoFar'
    BY <2>1, <2>2 DEF LoadInv, StoredSoFar
  <2>3. ASSUME NEW w \in Writers, StatementFails(w) PROVE StoredSoFar'
    <3>1. errors' # 0
      BY <1>1, <2>3 DEF StatementFails
    <3> QED
      BY <3>1 DEF StoredSoFar
  <2>4. ASSUME NEW r \in Reviews, Save(r) \/ Mark(r) PROVE StoredSoFar'
    <3>1. errors' = errors /\ status[r] = "Running" /\ \E s : todo' = [todo EXCEPT ![r] = s]
      BY <1>1, <2>4 DEF Save, Mark, JobsWrite
    <3>2. \A q \in Reviews : q # r => todo'[q] = todo[q]
      BY <1>1, <3>1 DEF Writers
    <3> QED
      BY <2>2, <3>1, <3>2
  <2>5. ASSUME NEW r \in Reviews, Unregister(r) PROVE StoredSoFar'
    <3>1. UNCHANGED <<todo, errors>>
      BY <2>5 DEF Unregister
    <3> QED
      BY <2>2, <3>1
  <2>6. ASSUME NEW p \in Loads,
               \/ LoadRow(p) \/ LoadSessions(p) \/ LoadTurns(p) \/ LoadMessages(p)
               \/ LoadEnds(p) \/ Reconcile(p) \/ Answer(p)
        PROVE  StoredSoFar'
    <3>1. errors' = errors /\ (todo' = todo \/ \E s : todo' = [todo EXCEPT ![p] = s])
      BY <2>6 DEF LoadRow, LoadSessions, LoadTurns, LoadMessages, LoadEnds, Reconcile, Answer
    <3>2. \A r \in Reviews : todo'[r] = todo[r]
      BY <1>1, <3>1, CascadeAssumption DEF Writers
    <3> QED
      BY <2>2, <3>1, <3>2
  <2>7. CASE UNCHANGED cascadeVars
    <3>1. UNCHANGED <<todo, errors>>
      BY <2>7 DEF cascadeVars
    <3> QED
      BY <2>2, <3>1
  <2> QED
    BY <1>3, <2>3, <2>4, <2>5, <2>6, <2>7 DEF CascadeNext
<1> QED
  BY <1>2, <1>3

\* Who writes does not disturb who loads a review that is stored.
LEMMA LoadsUndisturbed ==
  ASSUME CascadeInv, LoadInv, NEW w \in Writers, Execute(w)
  PROVE  LoadsSee'
<1>1. /\ JobsWrite /\ LoadsMark /\ ParentIsOfReview /\ LoadsSee
      /\ todo \in [Writers -> Saves] /\ review \in [Writers -> Reviews] /\ turns \in Seq(TurnRow)
      /\ load \in [Loads -> LoadRecord]
  BY DEF CascadeInv, WritersAreTyped, TablesAreTyped, LoadInv, LoadsAreTyped, LoadRecord
<1>2. UNCHANGED <<load, review>> /\ todo[w] # <<>>
  BY DEF Execute
<1>3. CascadeInv'
  BY ExecuteStep
<1>4. \A i \in DOMAIN turns : i \in DOMAIN turns' /\ turns'[i] = turns[i]
  <2>1. PICK s \in Statement :
          /\ s.kind = "review" => UNCHANGED <<turns, messages, parent>>
          /\ s.kind = "session" => UNCHANGED <<status, turns, messages, parent>>
          /\ s.kind = "turn" =>
               turns' = Append(turns, [review |-> review[w], agent |-> s.agent, index |-> s.index])
          /\ s.kind = "message" => UNCHANGED <<status, turns, parent>>
    BY StatementWrites, Zenon
  <2>2. s.kind \in {"review", "session", "turn", "message"}
    BY StatementKinds
  <2>3. turns' = turns \/ \E rec : turns' = Append(turns, rec)
    BY <2>1, <2>2
  <2>4. ASSUME NEW rec, turns' = Append(turns, rec), NEW i \in DOMAIN turns
        PROVE  i \in DOMAIN turns' /\ turns'[i] = turns[i]
    BY <1>1, <2>4
  <2> QED
    BY <2>3, <2>4
<1>5. ASSUME NEW p \in Loads PROVE LoadSees(p)'
  <2>1. PICK r \in Reviews : r = review[p] /\ r = review'[p] /\ r \in Writers
    BY <1>1, <1>2 DEF Writers
  <2>2. PICK l : l = load[p] /\ l = load'[p]
    BY <1>2
  <2>3. \A k \in DOMAIN l.queue : l.queue[k] \in DOMAIN turns
    BY <2>2 DEF CascadeInv, LoadsAreTyped
  <2>4. l.queue \in Seq(DOMAIN turns)
    <3>1. l \in LoadRecord
      BY <1>1, <2>2
    <3>2. PICK q \in Seq(Nat) : q = l.queue
      BY <3>1 DEF LoadRecord
    <3>3. q \in Seq(DOMAIN turns)
      BY <2>3, <3>2
    <3> QED
      BY <3>2, <3>3
  <2>5. /\ l.pc = "messages" => \A k \in DOMAIN l.queue : turns[l.queue[k]].review = r
        /\ l.whole => status[r] # "Running"
        /\ l.whole /\ status[r] = "Completed" =>
             /\ todo[r] = <<>>
             /\ Stored(turns, messages, r) = WithoutSessions(Transcript)
             /\ l.pc = "turns" => WithoutSessions(l.read) = <<>>
             /\ l.pc = "messages" =>
                  WithoutSessions(l.read) \o ReadAll(turns, messages, l.queue) = WithoutSessions(Transcript)
             /\ l.pc = "check" => WithoutSessions(l.read) = WithoutSessions(Transcript)
    <3>1. LoadSees(p) /\ r = review[p] /\ l = load[p]
      BY <1>1, <2>1, <2>2 DEF LoadsSee
    <3> QED
      BY <3>1, Zenon DEF LoadSees
  <2>6. l.pc = "messages" => \A k \in DOMAIN l.queue : turns'[l.queue[k]].review = r
    BY <1>4, <2>3, <2>5
  <2>7. l.whole => status'[r] # "Running"
    <3>1. CASE w = r
      <4>1. l.whole => status[r] = "Failed"
        <5>1. status[r] \in {"Running", "Completed", "Failed"}
          BY DEF CascadeInv, TablesAreTyped
        <5> QED
          BY <1>2, <2>5, <3>1, <5>1
      <4>2. PICK s \in Statement :
              /\ s.kind = "review" =>
                   \A q \in Reviews : status'[q] = IF q = review[w] THEN s.status ELSE status[q]
              /\ s.kind = "session" => UNCHANGED status
              /\ s.kind = "turn" => UNCHANGED status
              /\ s.kind = "message" => UNCHANGED status
        BY StatementWrites, ZenonT(40)
      <4>3. s.kind \in {"review", "session", "turn", "message"}
            /\ (s.kind = "review" => s.status \in {"Completed", "Failed"})
        BY StatementKinds
      <4>4. status'[r] # status[r] => status'[r] \in {"Completed", "Failed"}
        BY <4>2, <4>3
      <4> QED
        BY <4>1, <4>4
    <3>2. CASE w # r
      BY <1>1, <2>5, <3>2, OthersWrite
    <3> QED
      BY <3>1, <3>2
  <2>8. ASSUME l.whole, status'[r] = "Completed"
        PROVE  /\ todo'[r] = <<>>
               /\ Stored(turns', messages', r) = WithoutSessions(Transcript)
               /\ l.pc = "turns" => WithoutSessions(l.read) = <<>>
               /\ l.pc = "messages" =>
                    WithoutSessions(l.read) \o ReadAll(turns', messages', l.queue)
                      = WithoutSessions(Transcript)
               /\ l.pc = "check" => WithoutSessions(l.read) = WithoutSessions(Transcript)
    <3>1. w # r
      <4> SUFFICES ASSUME w = r PROVE FALSE
        OBVIOUS
      <4>1. PICK s \in Statement :
              /\ s = Head(todo[w])
              /\ s.kind = "review" =>
                   \A q \in Reviews : status'[q] = IF q = review[w] THEN s.status ELSE status[q]
              /\ s.kind = "session" => UNCHANGED status
              /\ s.kind = "turn" => UNCHANGED status
              /\ s.kind = "message" => UNCHANGED status
        BY StatementWrites, ZenonT(40)
      <4>2. s.kind \in {"review", "session", "turn", "message"}
        BY StatementKinds
      <4>3. s.kind = "review" => status[r] = "Running"
        BY <1>1, <1>2, <4>1 DEF JobsWrite
      <4>4. status[r] # "Running" /\ status[r] # "Completed"
        BY <1>2, <2>5, <2>8
      <4> QED
        BY <2>8, <4>1, <4>2, <4>3, <4>4
    <3>2. /\ todo'[r] = todo[r] /\ status'[r] = status[r]
          /\ Stored(turns', messages', r) = Stored(turns, messages, r)
          /\ \A q \in Seq(DOMAIN turns) :
               (\A k \in DOMAIN q : turns[q[k]].review = r) =>
                 ReadAll(turns', messages', q) = ReadAll(turns, messages, q)
      BY <1>1, <2>8, <3>1, OthersWrite
    <3>3. l.pc = "messages" => ReadAll(turns', messages', l.queue) = ReadAll(turns, messages, l.queue)
      BY <2>4, <2>5, <3>2
    <3> QED
      BY <2>5, <2>8, <3>2, <3>3
  <2> QED
    BY <2>1, <2>2, <2>6, <2>7, <2>8 DEF LoadSees
<1> QED
  BY <1>5 DEF LoadsSee

\* A load sees what it saw while the tables stay and the review's job has
\* nothing to write.
LEMMA SeesOn ==
  ASSUME NEW p \in Loads, LoadSees(p), load'[p] = load[p],
         UNCHANGED <<status, turns, messages, review>>,
         status[review[p]] = "Completed" /\ todo[review[p]] = <<>> => todo'[review[p]] = <<>>
  PROVE  LoadSees(p)'
<1>1. PICK r : r = review[p] /\ r = review'[p]
  OBVIOUS
<1>2. PICK l : l = load[p] /\ l = load'[p]
  OBVIOUS
<1>3. Stored(turns, messages, r)' = Stored(turns', messages', r)
  BY DEF Stored, ReadAll, ReadOf, Said, MessagesOf, PlacesOf
<1>4. /\ l.pc = "messages" => \A k \in DOMAIN l.queue : turns[l.queue[k]].review = r
      /\ l.whole => status[r] # "Running"
      /\ l.whole /\ status[r] = "Completed" =>
           /\ todo[r] = <<>>
           /\ Stored(turns, messages, r) = WithoutSessions(Transcript)
           /\ l.pc = "turns" => WithoutSessions(l.read) = <<>>
           /\ l.pc = "messages" =>
                WithoutSessions(l.read) \o ReadAll(turns, messages, l.queue) = WithoutSessions(Transcript)
           /\ l.pc = "check" => WithoutSessions(l.read) = WithoutSessions(Transcript)
  BY <1>1, <1>2, Zenon DEF LoadSees
<1>5. status[r] = "Completed" /\ todo[r] = <<>> => todo'[r] = <<>>
  BY <1>1
<1> QED
  BY <1>1, <1>2, <1>4, <1>5 DEF LoadSees

\* The step of one load.
LEMMA OneLoadSees ==
  ASSUME LoadInv, NEW p \in Loads, NEW l, load \in [Loads -> LoadRecord], load' = [load EXCEPT ![p] = l],
         UNCHANGED <<status, turns, messages, review>>, \A r \in Reviews : todo'[r] = todo[r],
         review \in [Writers -> Reviews],
         l.pc = "messages" => \A k \in DOMAIN l.queue : turns[l.queue[k]].review = review[p],
         l.whole => status[review[p]] # "Running",
         l.whole /\ status[review[p]] = "Completed" =>
           /\ todo[review[p]] = <<>>
           /\ Stored(turns, messages, review[p]) = WithoutSessions(Transcript)
           /\ l.pc = "turns" => WithoutSessions(l.read) = <<>>
           /\ l.pc = "messages" =>
                WithoutSessions(l.read) \o ReadAll(turns, messages, l.queue) = WithoutSessions(Transcript)
           /\ l.pc = "check" => WithoutSessions(l.read) = WithoutSessions(Transcript)
  PROVE  LoadsSee'
<1>1. load'[p] = l /\ \A q \in Loads : q # p => load'[q] = load[q]
  OBVIOUS
<1>2. \A q \in Loads : review[q] \in Reviews
  BY DEF Writers
<1>3. ASSUME NEW q \in Loads, q # p PROVE LoadSees(q)'
  <2>1. LoadSees(q)
    BY DEF LoadInv, LoadsSee
  <2>2. todo'[review[q]] = todo[review[q]]
    BY <1>2
  <2> QED
    BY <1>1, <1>3, <2>1, <2>2, SeesOn
<1>4. LoadSees(p)'
  <2>1. PICK r \in Reviews : r = review[p] /\ r = review'[p]
    BY <1>2
  <2> QED
    BY <1>1, <2>1 DEF LoadSees
<1> QED
  BY <1>3, <1>4 DEF LoadsSee

\* What a load sees, with the review and the record that it has.
LEMMA LoadHasSeen ==
  ASSUME CascadeInv, LoadInv, NEW p \in Loads, NEW r, r = review[p], NEW l, l = load[p]
  PROVE  /\ r \in Reviews /\ l \in LoadRecord /\ load \in [Loads -> LoadRecord]
         /\ review \in [Writers -> Reviews]
         /\ turns \in Seq(TurnRow) /\ messages \in Seq(MessageRow)
         /\ \A k \in DOMAIN l.queue : l.queue[k] \in DOMAIN turns
         /\ l.pc = "messages" => \A k \in DOMAIN l.queue : turns[l.queue[k]].review = r
         /\ l.whole => status[r] # "Running"
         /\ l.whole /\ status[r] = "Completed" =>
              /\ todo[r] = <<>>
              /\ Stored(turns, messages, r) = WithoutSessions(Transcript)
              /\ l.pc = "turns" => WithoutSessions(l.read) = <<>>
              /\ l.pc = "messages" =>
                   WithoutSessions(l.read) \o ReadAll(turns, messages, l.queue) = WithoutSessions(Transcript)
              /\ l.pc = "check" => WithoutSessions(l.read) = WithoutSessions(Transcript)
<1>1. /\ r \in Reviews /\ l \in LoadRecord /\ load \in [Loads -> LoadRecord]
      /\ review \in [Writers -> Reviews]
      /\ turns \in Seq(TurnRow) /\ messages \in Seq(MessageRow)
      /\ \A k \in DOMAIN l.queue : l.queue[k] \in DOMAIN turns
  BY DEF CascadeInv, WritersAreTyped, LoadsAreTyped, TablesAreTyped, LoadRecord, MessageRow, Writers
<1>2. LoadSees(p)
  BY DEF LoadInv, LoadsSee
<1> QED
  BY <1>1, <1>2, Zenon DEF LoadSees

\* The same of some review and record, to be named.
LEMMA LoadSeen ==
  ASSUME CascadeInv, LoadInv, NEW p \in Loads
  PROVE  \E r, now :
           /\ r = review[p] /\ now = load[p]
           /\ r \in Reviews /\ now \in LoadRecord /\ load \in [Loads -> LoadRecord]
           /\ review \in [Writers -> Reviews]
           /\ turns \in Seq(TurnRow) /\ messages \in Seq(MessageRow)
           /\ \A k \in DOMAIN now.queue : now.queue[k] \in DOMAIN turns
           /\ now.pc = "messages" => \A k \in DOMAIN now.queue : turns[now.queue[k]].review = r
           /\ now.whole => status[r] # "Running"
           /\ now.whole /\ status[r] = "Completed" =>
                /\ todo[r] = <<>>
                /\ Stored(turns, messages, r) = WithoutSessions(Transcript)
                /\ now.pc = "turns" => WithoutSessions(now.read) = <<>>
                /\ now.pc = "messages" =>
                     WithoutSessions(now.read) \o ReadAll(turns, messages, now.queue)
                       = WithoutSessions(Transcript)
                /\ now.pc = "check" => WithoutSessions(now.read) = WithoutSessions(Transcript)
<1>1. PICK r, now : r = review[p] /\ now = load[p]
  OBVIOUS
<1>2. r = review[p] /\ now = load[p]
  BY <1>1
<1>3. /\ r \in Reviews /\ now \in LoadRecord /\ load \in [Loads -> LoadRecord]
      /\ review \in [Writers -> Reviews]
      /\ turns \in Seq(TurnRow) /\ messages \in Seq(MessageRow)
      /\ \A k \in DOMAIN now.queue : now.queue[k] \in DOMAIN turns
  BY <1>2 DEF CascadeInv, WritersAreTyped, LoadsAreTyped, TablesAreTyped, LoadRecord, MessageRow, Writers
<1>4. LoadSees(p)
  BY DEF LoadInv, LoadsSee
<1> QED
  BY <1>2, <1>3, <1>4, Zenon DEF LoadSees

\* A load that has just begun knows whether all is stored.
LEMMA LoadRowSees ==
  ASSUME CascadeInv, LoadInv, NEW p \in Loads, LoadRow(p)
  PROVE  LoadsSee'
<1>1. PICK r : r = review[p]
  OBVIOUS
<1>2. /\ r \in Reviews /\ load \in [Loads -> LoadRecord] /\ review \in [Writers -> Reviews]
      /\ turns \in Seq(TurnRow) /\ messages \in Seq(MessageRow)
  BY <1>1, LoadHasSeen
<1>3. PICK b : b = (status[r] = "Completed" /\ todo[r] = <<>> /\ errors = 0)
  OBVIOUS
<1>4. PICK l : l = [NoLoad EXCEPT !.pc = "sessions", !.status = status[r], !.whole = b]
  OBVIOUS
<1>5. load' = [load EXCEPT ![p] = l] /\ UNCHANGED <<tables, todo, review>>
  BY <1>1, <1>3, <1>4 DEF LoadRow
<1>6. l.pc = "sessions" /\ l.whole = b
  BY <1>4 DEF NoLoad
<1>7. b => /\ status[r] = "Completed" /\ todo[r] = <<>>
           /\ Stored(turns, messages, r) = WithoutSessions(Transcript)
  <2> SUFFICES ASSUME b
               PROVE  /\ status[r] = "Completed" /\ todo[r] = <<>>
                      /\ Stored(turns, messages, r) = WithoutSessions(Transcript)
    OBVIOUS
  <2>1. status[r] = "Completed" /\ todo[r] = <<>> /\ errors = 0
    BY <1>3
  <2>2. Stored(turns, messages, r) \o WithoutSessions(<<>>) = WithoutSessions(Transcript)
    BY <1>2, <2>1 DEF LoadInv, StoredSoFar
  <2>3. <<>> \in Seq(Statement) /\ WithoutSessions(<<>>) = <<>>
    <3>1. <<>> \in Seq(Statement) /\ DOMAIN <<>> = {}
      OBVIOUS
    <3> QED
      BY <3>1, NoSessions
  <2>4. PICK s \in Seq(Statement) : s = Stored(turns, messages, r)
    BY <1>2, ReadIsTyped, PlacesAreTurns DEF Stored
  <2>5. s \o <<>> = s
    OBVIOUS
  <2> QED
    BY <2>1, <2>2, <2>3, <2>4, <2>5
<1>8. UNCHANGED <<status, turns, messages, review, todo>>
  BY <1>5 DEF tables
<1> QED
  BY <1>1, <1>2, <1>5, <1>6, <1>7, <1>8, OneLoadSees

\* It reads the session.
LEMMA LoadSessionsSees ==
  ASSUME CascadeInv, LoadInv, NEW p \in Loads, LoadSessions(p)
  PROVE  LoadsSee'
<1>1. PICK r, k : r = review[p] /\ k = load[p]
  OBVIOUS
<1>2. /\ r \in Reviews /\ k \in LoadRecord /\ load \in [Loads -> LoadRecord]
      /\ review \in [Writers -> Reviews]
      /\ k.whole => status[r] # "Running"
      /\ k.whole /\ status[r] = "Completed" =>
           todo[r] = <<>> /\ Stored(turns, messages, r) = WithoutSessions(Transcript)
  BY <1>1, LoadHasSeen
<1>3. PICK a \in {0} \cup Agents : a = session[r]
  BY <1>2 DEF CascadeInv, TablesAreTyped
<1>4. PICK c, stop : /\ c = IF a = 0 THEN <<>> ELSE <<[kind |-> "session", agent |-> a]>>
                     /\ stop = IF a = 0 THEN "check" ELSE "turns"
  OBVIOUS
<1>5. PICK l : l = [k EXCEPT !.pc = stop, !.read = c]
  OBVIOUS
<1>6. l.pc = stop /\ l.read = c /\ l.whole = k.whole
  BY <1>2, <1>5 DEF LoadRecord
<1>7. load' = [load EXCEPT ![p] = l] /\ UNCHANGED <<status, turns, messages, review, todo>>
  BY <1>1, <1>2, <1>3, <1>4, <1>5 DEF LoadSessions, tables
<1>8. WithoutSessions(c) = <<>>
  <2>1. CASE a = 0
    <3>1. <<>> \in Seq(Statement) /\ DOMAIN <<>> = {}
      OBVIOUS
    <3> QED
      BY <1>4, <2>1, <3>1, NoSessions
  <2>2. CASE a # 0
    <3>1. PICK x : x = [kind |-> "session", agent |-> a]
      OBVIOUS
    <3>2. x \in Statement /\ x.kind = "session"
      BY <1>3, <2>2, <3>1 DEF Statement
    <3>3. c = <<x>> /\ c \in Seq(Statement)
      BY <1>4, <2>2, <3>1, <3>2
    <3> QED
      BY <3>2, <3>3, NoSessions
  <2> QED
    BY <2>1, <2>2
<1>9. a = 0 => Stored(turns, messages, r) = <<>>
  BY <1>2, <1>3, NothingStored
<1>10. stop # "messages" /\ (stop = "check" => a = 0)
  BY <1>4
<1> QED
  BY <1>1, <1>2, <1>6, <1>7, <1>8, <1>9, <1>10, OneLoadSees

\* It finds all the turns.
LEMMA LoadTurnsSees ==
  ASSUME CascadeInv, LoadInv, NEW p \in Loads, LoadTurns(p)
  PROVE  LoadsSee'
<1>1. PICK r, k : r = review[p] /\ k = load[p]
  OBVIOUS
<1>2. /\ r \in Reviews /\ k \in LoadRecord /\ load \in [Loads -> LoadRecord]
      /\ review \in [Writers -> Reviews]
      /\ turns \in Seq(TurnRow) /\ messages \in Seq(MessageRow)
      /\ k.whole => status[r] # "Running"
      /\ k.whole /\ status[r] = "Completed" =>
           /\ todo[r] = <<>> /\ Stored(turns, messages, r) = WithoutSessions(Transcript)
           /\ k.pc = "turns" => WithoutSessions(k.read) = <<>>
  BY <1>1, LoadHasSeen
<1>3. PICK q : q = PlacesOf(turns, r)
  OBVIOUS
<1>4. PICK l : l = [k EXCEPT !.pc = "messages", !.queue = q]
  OBVIOUS
<1>5. l.pc = "messages" /\ l.queue = q /\ l.read = k.read /\ l.whole = k.whole /\ k.pc = "turns"
  BY <1>1, <1>2, <1>4 DEF LoadRecord, LoadTurns
<1>6. load' = [load EXCEPT ![p] = l] /\ UNCHANGED <<status, turns, messages, review, todo>>
  BY <1>1, <1>2, <1>3, <1>4 DEF LoadTurns, PlacesOf, tables
<1>7. \A i \in DOMAIN q : turns[q[i]].review = r
  BY <1>2, <1>3, PlacesAreTurns
<1>8. <<>> \o Stored(turns, messages, r) = ReadAll(turns, messages, q)
  <2>1. PICK s \in Seq(Statement) : s = Stored(turns, messages, r)
    BY <1>2, ReadIsTyped, PlacesAreTurns DEF Stored
  <2>2. <<>> \o s = s
    OBVIOUS
  <2> QED
    BY <1>3, <2>1, <2>2 DEF Stored
<1>9. l.whole /\ status[r] = "Completed" =>
        WithoutSessions(l.read) \o ReadAll(turns, messages, l.queue) = WithoutSessions(Transcript)
  <2> SUFFICES ASSUME l.whole, status[r] = "Completed"
               PROVE  WithoutSessions(l.read) \o ReadAll(turns, messages, q) = WithoutSessions(Transcript)
    BY <1>5
  <2>1. WithoutSessions(l.read) = <<>> /\ Stored(turns, messages, r) = WithoutSessions(Transcript)
    BY <1>2, <1>5
  <2>2. PICK s \in Seq(Statement) : s = Stored(turns, messages, r)
    BY <1>2, ReadIsTyped, PlacesAreTurns DEF Stored
  <2>3. s = ReadAll(turns, messages, q)
    BY <1>3, <2>2 DEF Stored
  <2>4. <<>> \o s = s
    OBVIOUS
  <2> QED
    BY <2>1, <2>2, <2>3, <2>4
<1> QED
  BY <1>1, <1>2, <1>5, <1>6, <1>7, <1>9, OneLoadSees

\* Which two sequences of statements are joined first does not matter.
LEMMA StatementsJoin ==
  ASSUME NEW s \in Seq(Statement), NEW t \in Seq(Statement), NEW u \in Seq(Statement)
  PROVE  (s \o t) \o u = s \o (t \o u)
<1>1. PICK E : E = Statement
  OBVIOUS
<1>2. s \in Seq(E) /\ t \in Seq(E) /\ u \in Seq(E)
  BY <1>1
<1> QED
  BY <1>2, ConcatAssociative

\* It reads one turn after the other.
LEMMA LoadMessagesSees ==
  ASSUME CascadeInv, LoadInv, NEW p \in Loads, LoadMessages(p)
  PROVE  LoadsSee'
<1>1. PICK r, now :
        /\ r = review[p] /\ now = load[p]
        /\ r \in Reviews /\ now \in LoadRecord /\ load \in [Loads -> LoadRecord]
        /\ review \in [Writers -> Reviews]
        /\ turns \in Seq(TurnRow) /\ messages \in Seq(MessageRow)
        /\ \A k \in DOMAIN now.queue : now.queue[k] \in DOMAIN turns
        /\ now.pc = "messages" => \A k \in DOMAIN now.queue : turns[now.queue[k]].review = r
        /\ now.whole => status[r] # "Running"
        /\ now.whole /\ status[r] = "Completed" =>
             /\ todo[r] = <<>>
             /\ Stored(turns, messages, r) = WithoutSessions(Transcript)
             /\ now.pc = "turns" => WithoutSessions(now.read) = <<>>
             /\ now.pc = "messages" =>
                  WithoutSessions(now.read) \o ReadAll(turns, messages, now.queue)
                    = WithoutSessions(Transcript)
             /\ now.pc = "check" => WithoutSessions(now.read) = WithoutSessions(Transcript)
  BY LoadSeen, Zenon
<1>2. /\ r \in Reviews /\ now \in LoadRecord /\ load \in [Loads -> LoadRecord]
      /\ review \in [Writers -> Reviews]
      /\ turns \in Seq(TurnRow) /\ messages \in Seq(MessageRow)
      /\ \A i \in DOMAIN now.queue : now.queue[i] \in DOMAIN turns
      /\ now.pc = "messages" => \A i \in DOMAIN now.queue : turns[now.queue[i]].review = r
      /\ now.whole => status[r] # "Running"
      /\ now.whole /\ status[r] = "Completed" =>
           /\ todo[r] = <<>> /\ Stored(turns, messages, r) = WithoutSessions(Transcript)
           /\ now.pc = "messages" =>
                WithoutSessions(now.read) \o ReadAll(turns, messages, now.queue) = WithoutSessions(Transcript)
  BY <1>1
<1>3. now.pc = "messages" /\ now.queue # <<>>
  BY <1>1 DEF LoadMessages
<1>4. PICK q \in Seq(DOMAIN turns) : q = now.queue
  <2>1. PICK v \in Seq(Nat) : v = now.queue
    BY <1>2 DEF LoadRecord
  <2>2. \A i \in DOMAIN v : v[i] \in DOMAIN turns
    BY <1>2, <2>1
  <2>3. v \in Seq(DOMAIN turns)
    BY <2>2
  <2> QED
    BY <2>1, <2>3
<1>5. PICK n \in Nat \ {0} : n = Len(q) /\ DOMAIN q = 1 .. n
  BY <1>3, <1>4
<1>6. PICK i \in DOMAIN turns : i = Head(q)
  BY <1>5
<1>7. PICK rest \in Seq(DOMAIN turns) : /\ rest = Tail(q) /\ DOMAIN rest = 1 .. n - 1
                                        /\ \A j \in 1 .. n - 1 : rest[j] = q[j + 1]
  <2>1. PICK u : u = Tail(q)
    OBVIOUS
  <2>2. u \in Seq(DOMAIN turns) /\ DOMAIN u = 1 .. n - 1 /\ \A j \in 1 .. n - 1 : u[j] = q[j + 1]
    BY <1>5, <2>1
  <2> QED
    BY <2>1, <2>2
<1>8. PICK read \in Seq(Statement) : read = now.read
  BY <1>2 DEF LoadRecord, Children, Chains
<1>9. PICK turn \in Seq(Statement) : turn = ReadOf(turns, messages, i)
  BY <1>2, ReadIsTyped
<1>10. PICK l : l = [now EXCEPT !.queue = rest, !.read = read \o turn]
  OBVIOUS
<1>11. l.pc = "messages" /\ l.queue = rest /\ l.read = read \o turn /\ l.whole = now.whole
  BY <1>2, <1>3, <1>10 DEF LoadRecord
<1>12. UNCHANGED <<status, turns, messages, review, todo>>
  BY DEF LoadMessages, tables
<1>13. load' = [load EXCEPT ![p] = l]
  <2>1. PICK one : one = <<AsTurn(turns[i])>>
    OBVIOUS
  <2>2. PICK said \in Seq(Statement) : said = Said(messages, i)
    BY <1>2, ReadIsTyped
  <2>3. one \in Seq(Statement)
    <3>1. turns[i] \in TurnRow
      BY <1>2
    <3>2. AsTurn(turns[i]) \in Statement
      BY <3>1 DEF TurnRow, AsTurn, Statement
    <3> QED
      BY <2>1, <3>2
  <2>4. turn = one \o said /\ (read \o one) \o said = read \o (one \o said)
    BY <1>9, <2>1, <2>2, <2>3, JoinThree DEF ReadOf
  <2>5. said = [j \in DOMAIN Under(i) |->
                  [kind |-> "message", agent |-> Under(i)[j].agent, index |-> Under(i)[j].index]]
    BY <2>2 DEF Said, MessagesOf, AsMessage, Under
  <2>6. load' = [load EXCEPT ![p].queue = Tail(@), ![p].read = @ \o one \o said]
    BY <1>1, <1>4, <1>6, <2>1, <2>5 DEF LoadMessages, AsTurn
  <2> QED
    BY <1>1, <1>2, <1>4, <1>7, <1>8, <1>10, <2>4, <2>6
<1>14. \A j \in DOMAIN rest : turns[rest[j]].review = r
  <2>1. \A j \in 1 .. n - 1 : j + 1 \in 1 .. n
    OBVIOUS
  <2>2. \A m \in DOMAIN q : turns[q[m]].review = r
    BY <1>2, <1>3, <1>4
  <2> QED
    BY <1>5, <1>7, <2>1, <2>2
<1>15. l.whole /\ status[r] = "Completed" =>
         WithoutSessions(l.read) \o ReadAll(turns, messages, l.queue) = WithoutSessions(Transcript)
  <2> SUFFICES ASSUME l.whole, status[r] = "Completed"
               PROVE  WithoutSessions(read \o turn) \o ReadAll(turns, messages, rest)
                        = WithoutSessions(Transcript)
    BY <1>11
  <2>1. WithoutSessions(read) \o ReadAll(turns, messages, q) = WithoutSessions(Transcript)
    BY <1>2, <1>3, <1>4, <1>8, <1>11
  <2>2. PICK more \in Seq(Statement) : more = ReadAll(turns, messages, rest)
    BY <1>2, ReadIsTyped
  <2>3. ReadAll(turns, messages, q) = turn \o more
    BY <1>2, <1>3, <1>4, <1>6, <1>7, <1>9, <2>2, ReadsOn
  <2>4. PICK had \in Seq(Statement) : had = WithoutSessions(read)
    BY NoSessions
  <2>5. WithoutSessions(turn) = turn
    BY <1>2, <1>9, ReadHasNoSessions
  <2>6. \A t \in Seq(Statement) : WithoutSessions(read \o t) = WithoutSessions(read) \o WithoutSessions(t)
    BY NoSessions
  <2>7. WithoutSessions(read \o turn) = had \o turn
    BY <2>4, <2>5, <2>6
  <2>8. (had \o turn) \o more = had \o (turn \o more)
    BY <1>9, <2>2, <2>4, StatementsJoin
  <2> QED
    BY <2>1, <2>2, <2>3, <2>4, <2>7, <2>8
<1> QED
  BY <1>1, <1>2, <1>11, <1>12, <1>13, <1>14, <1>15, OneLoadSees

\* It ends after the last turn.
LEMMA LoadEndsSees ==
  ASSUME CascadeInv, LoadInv, NEW p \in Loads, LoadEnds(p)
  PROVE  LoadsSee'
<1>1. PICK r, now :
        /\ r = review[p] /\ now = load[p]
        /\ r \in Reviews /\ now \in LoadRecord /\ load \in [Loads -> LoadRecord]
        /\ review \in [Writers -> Reviews]
        /\ turns \in Seq(TurnRow) /\ messages \in Seq(MessageRow)
        /\ \A k \in DOMAIN now.queue : now.queue[k] \in DOMAIN turns
        /\ now.pc = "messages" => \A k \in DOMAIN now.queue : turns[now.queue[k]].review = r
        /\ now.whole => status[r] # "Running"
        /\ now.whole /\ status[r] = "Completed" =>
             /\ todo[r] = <<>>
             /\ Stored(turns, messages, r) = WithoutSessions(Transcript)
             /\ now.pc = "turns" => WithoutSessions(now.read) = <<>>
             /\ now.pc = "messages" =>
                  WithoutSessions(now.read) \o ReadAll(turns, messages, now.queue)
                    = WithoutSessions(Transcript)
             /\ now.pc = "check" => WithoutSessions(now.read) = WithoutSessions(Transcript)
  BY LoadSeen, Zenon
<1>2. /\ r \in Reviews /\ now \in LoadRecord /\ load \in [Loads -> LoadRecord]
      /\ review \in [Writers -> Reviews]
      /\ turns \in Seq(TurnRow) /\ messages \in Seq(MessageRow)
      /\ now.whole => status[r] # "Running"
      /\ now.whole /\ status[r] = "Completed" =>
           /\ todo[r] = <<>> /\ Stored(turns, messages, r) = WithoutSessions(Transcript)
           /\ now.pc = "messages" =>
                WithoutSessions(now.read) \o ReadAll(turns, messages, now.queue) = WithoutSessions(Transcript)
  BY <1>1
<1>3. now.pc = "messages" /\ now.queue = <<>>
  BY <1>1 DEF LoadEnds
<1>4. PICK l : l = [now EXCEPT !.pc = "check"]
  OBVIOUS
<1>5. l.pc = "check" /\ l.read = now.read /\ l.whole = now.whole
  BY <1>2, <1>4 DEF LoadRecord
<1>6. load' = [load EXCEPT ![p] = l] /\ UNCHANGED <<status, turns, messages, review, todo>>
  BY <1>1, <1>2, <1>4 DEF LoadEnds, tables
<1>7. ReadAll(turns, messages, now.queue) = <<>>
  <2>1. <<>> \in Seq(DOMAIN turns)
    OBVIOUS
  <2> QED
    BY <1>2, <1>3, <2>1, ReadsOn
<1>8. now.whole /\ status[r] = "Completed" => WithoutSessions(now.read) = WithoutSessions(Transcript)
  <2>1. PICK read \in Seq(Statement) : read = now.read
    BY <1>2 DEF LoadRecord, Children, Chains
  <2>2. PICK had \in Seq(Statement) : had = WithoutSessions(read)
    BY NoSessions
  <2>3. had \o <<>> = had
    OBVIOUS
  <2> QED
    BY <1>2, <1>3, <1>7, <2>1, <2>2, <2>3
<1> QED
  BY <1>1, <1>2, <1>5, <1>6, <1>8, OneLoadSees

\* It is over.
LEMMA LoadOverSees ==
  ASSUME CascadeInv, LoadInv, NEW p \in Loads, Reconcile(p) \/ Answer(p)
  PROVE  LoadsSee'
<1>1. PICK r, k : r = review[p] /\ k = load[p]
  OBVIOUS
<1>2. /\ r \in Reviews /\ k \in LoadRecord /\ load \in [Loads -> LoadRecord]
      /\ review \in [Writers -> Reviews] /\ todo \in [Writers -> Saves]
      /\ k.whole => status[r] # "Running"
      /\ k.whole /\ status[r] = "Completed" =>
           todo[r] = <<>> /\ Stored(turns, messages, r) = WithoutSessions(Transcript)
  BY <1>1, LoadHasSeen DEF CascadeInv, WritersAreTyped
<1>3. PICK l : /\ load' = [load EXCEPT ![p] = l]
               /\ l = NoLoad \/ l = [k EXCEPT !.pc = "save"]
  BY <1>1, <1>2 DEF Reconcile, Answer
<1>4. \/ l.whole = FALSE /\ l.pc = "idle"
      \/ l.pc = "save" /\ l.whole = k.whole
  BY <1>2, <1>3 DEF LoadRecord, NoLoad
<1>5. UNCHANGED <<status, turns, messages, review>>
  BY DEF Reconcile, Answer, tables
<1>6. \A q \in Reviews : todo'[q] = todo[q]
  <2>1. todo' = todo \/ \E s : todo' = [todo EXCEPT ![p] = s]
    BY DEF Reconcile, Answer
  <2> QED
    BY <1>2, <2>1, CascadeAssumption DEF Writers
<1> QED
  BY <1>1, <1>2, <1>3, <1>4, <1>5, <1>6, OneLoadSees

\* A task that is not writing changes nothing that a load has seen of a completed review.
LEMMA TasksSpareLoads ==
  ASSUME CascadeInv, LoadInv, [CascadeNext]_cascadeVars, \A w \in Writers : ~Execute(w), load' = load
  PROVE  LoadsSee'
<1>1. UNCHANGED <<status, turns, messages, review>>
  BY OnlyStatementsWrite
<1>2. /\ review \in [Writers -> Reviews] /\ todo \in [Writers -> Saves]
      /\ job \in [Reviews -> {"working", "saving", "marking", "done"}]
      /\ JobsWrite /\ LoadsSee
  BY DEF CascadeInv, WritersAreTyped, LoadInv
<1>3. ASSUME NEW r \in Reviews, status[r] = "Completed", todo[r] = <<>>
      PROVE  todo'[r] = <<>>
  <2>1. r \in Writers /\ r \notin Loads
    BY CascadeAssumption DEF Writers
  <2>2. ASSUME NEW w \in Writers, StatementFails(w) PROVE todo'[r] = <<>>
    BY <1>2, <1>3, <2>1, <2>2 DEF StatementFails
  <2>3. ASSUME NEW q \in Reviews, Save(q) \/ Mark(q) PROVE todo'[r] = <<>>
    <3>1. job[q] \in {"working", "marking"}
      BY <2>3 DEF Save, Mark
    <3>2. q # r
      BY <1>2, <1>3, <3>1 DEF JobsWrite
    <3>3. \E s : todo' = [todo EXCEPT ![q] = s]
      BY <2>3 DEF Save, Mark
    <3> QED
      BY <1>2, <1>3, <2>1, <3>2, <3>3
  <2>4. ASSUME NEW q \in Reviews, Unregister(q) PROVE todo'[r] = <<>>
    BY <1>3, <2>4 DEF Unregister
  <2>5. ASSUME NEW p \in Loads, LoadRow(p) \/ LoadSessions(p) \/ LoadTurns(p)
                            \/ LoadMessages(p) \/ LoadEnds(p) \/ Answer(p)
        PROVE  todo'[r] = <<>>
    BY <1>3, <2>5 DEF LoadRow, LoadSessions, LoadTurns, LoadMessages, LoadEnds, Answer
  <2>6. ASSUME NEW p \in Loads, Reconcile(p) PROVE todo'[r] = <<>>
    <3>1. todo' = todo \/ \E s : todo' = [todo EXCEPT ![p] = s]
      BY <2>6 DEF Reconcile
    <3> QED
      BY <1>2, <1>3, <2>1, <3>1
  <2>7. CASE UNCHANGED cascadeVars
    BY <1>3, <2>7 DEF cascadeVars
  <2> QED
    BY <2>2, <2>3, <2>4, <2>5, <2>6, <2>7 DEF CascadeNext
<1>4. ASSUME NEW p \in Loads PROVE LoadSees(p)'
  <2>1. review[p] \in Reviews /\ LoadSees(p) /\ load'[p] = load[p]
    BY <1>2 DEF Writers, LoadsSee
  <2>2. status[review[p]] = "Completed" /\ todo[review[p]] = <<>> => todo'[review[p]] = <<>>
    BY <1>3, <2>1
  <2> QED
    BY <1>1, <2>1, <2>2, SeesOn
<1> QED
  BY <1>4 DEF LoadsSee

\* Every step keeps what the loads see.
LEMMA LoadKeepsInv ==
  ASSUME CascadeInv, LoadInv, CascadeInv', [CascadeNext]_cascadeVars
  PROVE  LoadInv'
<1>1. JobsWrite' /\ LoadsMark' /\ ParentIsOfReview'
  BY JobsWriteKeeps, LoadsMarkKeeps, ParentKeeps DEF LoadInv
<1>2. StoredSoFar'
  BY StoredKeeps
<1>3. ASSUME NEW w \in Writers, Execute(w) PROVE LoadsSee'
  BY <1>3, LoadsUndisturbed
<1>4. ASSUME NEW p \in Loads, LoadRow(p) PROVE LoadsSee'
  BY <1>4, LoadRowSees
<1>5. ASSUME NEW p \in Loads, LoadSessions(p) PROVE LoadsSee'
  BY <1>5, LoadSessionsSees
<1>6. ASSUME NEW p \in Loads, LoadTurns(p) PROVE LoadsSee'
  BY <1>6, LoadTurnsSees
<1>7. ASSUME NEW p \in Loads, LoadMessages(p) PROVE LoadsSee'
  BY <1>7, LoadMessagesSees
<1>8. ASSUME NEW p \in Loads, LoadEnds(p) PROVE LoadsSee'
  BY <1>8, LoadEndsSees
<1>9. ASSUME NEW p \in Loads, Reconcile(p) \/ Answer(p) PROVE LoadsSee'
  BY <1>9, LoadOverSees
<1>10. ASSUME \A w \in Writers : ~Execute(w), load' = load PROVE LoadsSee'
  BY <1>10, TasksSpareLoads
<1>11. ASSUME NEW w \in Writers, StatementFails(w) PROVE load' = load
  BY <1>11 DEF StatementFails
<1>12. ASSUME NEW r \in Reviews, Save(r) \/ Mark(r) \/ Unregister(r) PROVE load' = load
  BY <1>12 DEF Save, Mark, Unregister
<1>13. UNCHANGED cascadeVars => load' = load
  BY DEF cascadeVars
<1>14. LoadsSee'
  <2>1. CASE \E w \in Writers : Execute(w)
    BY <1>3, <2>1
  <2>2. CASE load' = load /\ \A w \in Writers : ~Execute(w)
    BY <1>10, <2>2
  <2>3. CASE \E p \in Loads : \/ LoadRow(p) \/ LoadSessions(p) \/ LoadTurns(p) \/ LoadMessages(p)
                              \/ LoadEnds(p) \/ Reconcile(p) \/ Answer(p)
    BY <1>4, <1>5, <1>6, <1>7, <1>8, <1>9, <2>3
  <2> QED
    BY <1>11, <1>12, <1>13, <2>1, <2>2, <2>3 DEF CascadeNext
<1> QED
  BY <1>1, <1>2, <1>14 DEF LoadInv

\* A page load that began after a save without errors reads every turn of the review
\* with its message, once and in order, and nothing of another review, however the
\* statements of other saves and loads fall between its queries, unless an older load
\* has marked the review as failed meanwhile (load_children).
THEOREM LoadsAreWhole == CascadeSpec => []LoadIsWhole
<1>1. CascadeInit => CascadeInv /\ LoadInv
  BY CascadeStarts, LoadStarts
<1>2. CascadeInv /\ LoadInv /\ [CascadeNext]_cascadeVars => CascadeInv' /\ LoadInv'
  BY CascadeKeeps, LoadKeepsInv
<1>3. LoadInv => LoadIsWhole
  <2> SUFFICES ASSUME LoadInv, NEW p \in Loads, load[p].pc = "check", load[p].whole,
                      status[review[p]] = "Completed"
               PROVE  WithoutSessions(load[p].read) = WithoutSessions(Transcript)
    BY DEF LoadIsWhole
  <2>1. LoadSees(p)
    BY DEF LoadInv, LoadsSee
  <2> QED
    BY <2>1 DEF LoadSees
<1> QED
  BY <1>1, <1>2, <1>3, PTL DEF CascadeSpec

-----------------------------------------------------------------------------
(* How often a turn is stored, or about to be.                              *)

\* The turns at the places q.
TurnsAt(ts, q) == [k \in DOMAIN q |-> ts[q[k]]]

\* What a load that found the review running has read of a turn, or will read.
Carries(l, ts, t) ==
  IF l.status = "Running" /\ l.pc \in {"messages", "check"}
    THEN HowOften(l.read, AsTurn(t)) + HowOften(TurnsAt(ts, l.queue), t)
    ELSE 0

\* What a writer may still store of a turn.
Held(w, t) ==
  HowOften(todo[w], AsTurn(t)) + (IF w \in Loads THEN Carries(load[w], turns, t) ELSE 0)

\* The writers of a review, and what is stored of a turn or may be.
WritersOf(r) == {w \in Writers : review[w] = r}
Weight(t) ==
  Copies(t) + Total([w \in WritersOf(t.review) |-> Held(w, t)], WritersOf(t.review))

\* The loads of a review, except those that found it running and have not read
\* its turns yet.
HaveRead(r) ==
  {p \in Loads : review[p] = r /\ ~(load[p].status = "Running" /\ load[p].pc \in {"sessions", "turns"})}

\* What a load has in its hands at each stage.
StagesOfLoads ==
  \A p \in Loads :
    /\ load[p].pc # "messages" => load[p].queue = <<>>
    /\ load[p].pc \in {"idle", "sessions"} => load[p].read = <<>>
    /\ load[p].pc = "turns" => \A k \in DOMAIN load[p].read : load[p].read[k].kind = "session"

\* No load holds a turn of a review that is running.
NothingToDouble ==
  \A p \in Loads : \A t \in TurnRow :
    review[p] = t.review /\ status[t.review] = "Running" => Held(p, t) = 0

\* Each load that has read the turns of a review that looked running may double
\* what there is of them.
DoublingBounded ==
  \A t \in TurnRow : Weight(t) <= Cardinality(SUBSET HaveRead(t.review))

\* The job of a review stores a turn once, and as long as it runs nobody else does.
JobStoresOnce ==
  \A t \in TurnRow :
    \/ Copies(t) + HowOften(todo[t.review], AsTurn(t)) <= 1
    \/ status[t.review] = "Failed" /\ job[t.review] = "done"

DoubledInv == StagesOfLoads /\ NothingToDouble /\ DoublingBounded /\ JobStoresOnce

\* The turns at the places of a queue are turns; more turns do not change them.
LEMMA TurnsAtType ==
  ASSUME NEW ts \in Seq(TurnRow), NEW q \in Seq(Nat), \A k \in DOMAIN q : q[k] \in DOMAIN ts
  PROVE  /\ TurnsAt(ts, q) \in Seq(TurnRow) /\ Len(TurnsAt(ts, q)) = Len(q)
         /\ q = <<>> => TurnsAt(ts, q) = <<>>
         /\ q # <<>> => /\ TurnsAt(ts, q) # <<>> /\ Head(TurnsAt(ts, q)) = ts[Head(q)]
                        /\ Tail(TurnsAt(ts, q)) = TurnsAt(ts, Tail(q))
         /\ \A x \in TurnRow : TurnsAt(Append(ts, x), q) = TurnsAt(ts, q)
<1>1. PICK n \in Nat : n = Len(q) /\ DOMAIN q = 1 .. n
  OBVIOUS
<1>2. PICK s : s = TurnsAt(ts, q)
  OBVIOUS
<1>3. s = [k \in 1 .. n |-> ts[q[k]]]
  BY <1>1, <1>2 DEF TurnsAt
<1>4. s \in Seq(TurnRow) /\ Len(s) = n /\ \A k \in 1 .. n : s[k] = ts[q[k]]
  <2>1. \A k \in 1 .. n : ts[q[k]] \in TurnRow
    BY <1>1
  <2> QED
    BY <1>3, <2>1
<1>5. q = <<>> => s = <<>>
  BY <1>1, <1>4
<1>6. ASSUME q # <<>>
      PROVE  s # <<>> /\ Head(s) = ts[Head(q)] /\ Tail(s) = TurnsAt(ts, Tail(q))
  <2>1. n > 0 /\ Head(q) = q[1] /\ Head(s) = s[1] /\ s # <<>> /\ 1 \in 1 .. n
    BY <1>1, <1>4, <1>6
  <2>2. PICK u : u = Tail(q)
    OBVIOUS
  <2>3. DOMAIN u = 1 .. n - 1 /\ \A k \in 1 .. n - 1 : u[k] = q[k + 1]
    BY <1>1, <1>6, <2>2
  <2>4. Tail(s) = [k \in 1 .. n - 1 |-> s[k + 1]]
    <3>1. PICK v \in Seq(TurnRow) : v = s /\ Len(v) = n /\ v # <<>>
      BY <1>4, <2>1
    <3>2. PICK x : x = Tail(v)
      OBVIOUS
    <3>3. x \in Seq(TurnRow) /\ Len(x) = n - 1 /\ \A k \in 1 .. n - 1 : x[k] = v[k + 1]
      BY <3>1, <3>2
    <3>4. x = [k \in 1 .. n - 1 |-> x[k]]
      BY <3>3
    <3> QED
      BY <3>1, <3>2, <3>3, <3>4
  <2>5. \A k \in 1 .. n - 1 : s[k + 1] = ts[u[k]]
    BY <1>4, <2>1, <2>3
  <2>6. [k \in 1 .. n - 1 |-> s[k + 1]] = [k \in 1 .. n - 1 |-> ts[u[k]]]
    BY <2>5
  <2>7. TurnsAt(ts, u) = [k \in 1 .. n - 1 |-> ts[u[k]]]
    BY <2>3 DEF TurnsAt
  <2> QED
    BY <1>4, <2>1, <2>2, <2>4, <2>6, <2>7
<1>7. ASSUME NEW x \in TurnRow PROVE TurnsAt(Append(ts, x), q) = s
  <2>1. PICK more : more = Append(ts, x)
    OBVIOUS
  <2>2. \A i \in DOMAIN ts : more[i] = ts[i]
    BY <2>1
  <2>3. \A k \in 1 .. n : more[q[k]] = ts[q[k]]
    BY <1>1, <2>2
  <2>4. TurnsAt(more, q) = [k \in 1 .. n |-> more[q[k]]]
    BY <1>1 DEF TurnsAt
  <2> QED
    BY <1>3, <2>1, <2>3, <2>4
<1> QED
  BY <1>1, <1>2, <1>4, <1>5, <1>6, <1>7

\* Turns are statements.
LEMMA AsTurnIsStatement ==
  ASSUME NEW t \in TurnRow
  PROVE  /\ AsTurn(t) \in Statement /\ AsTurn(t).kind = "turn"
         /\ AsTurn(t).agent = t.agent /\ AsTurn(t).index = t.index
         /\ t = [review |-> t.review, agent |-> t.agent, index |-> t.index]
  BY DEF AsTurn, Statement, TurnRow

\* What a load carries is a number; a load that carries anything is between the
\* turns and its check.
LEMMA CarriesType ==
  ASSUME NEW ts \in Seq(TurnRow), NEW l \in LoadRecord, \A k \in DOMAIN l.queue : l.queue[k] \in DOMAIN ts,
         NEW t \in TurnRow
  PROVE  /\ Carries(l, ts, t) \in Nat
         /\ HowOften(l.read, AsTurn(t)) \in Nat /\ HowOften(TurnsAt(ts, l.queue), t) \in Nat
         /\ \A x \in TurnRow : Carries(l, Append(ts, x), t) = Carries(l, ts, t)
<1>1. l.read \in Seq(Statement) /\ l.queue \in Seq(Nat)
  BY DEF LoadRecord, Children, Chains
<1>2. PICK q \in Seq(Nat) : q = l.queue /\ \A k \in DOMAIN q : q[k] \in DOMAIN ts
  BY <1>1
<1>3. TurnsAt(ts, q) \in Seq(TurnRow) /\ \A x \in TurnRow : TurnsAt(Append(ts, x), q) = TurnsAt(ts, q)
  BY <1>2, TurnsAtType
<1>4. HowOften(l.read, AsTurn(t)) \in Nat
  BY <1>1, HowOftenType
<1>5. HowOften(TurnsAt(ts, q), t) \in Nat
  BY <1>3, HowOftenType
<1> QED
  BY <1>2, <1>3, <1>4, <1>5 DEF Carries

\* The counts are numbers, and the writers of a review finitely many.
LEMMA HeldType ==
  ASSUME CascadeInv, JobsWrite, NEW t \in TurnRow
  PROVE  /\ Copies(t) \in Nat /\ Copies(t) = HowOften(turns, t)
         /\ \A w \in Writers : /\ HowOften(todo[w], AsTurn(t)) \in Nat /\ Held(w, t) \in Nat
                               /\ w \in Loads => Carries(load[w], turns, t) \in Nat
         /\ IsFiniteSet(WritersOf(t.review))
<1>1. turns \in Seq(TurnRow) /\ todo \in [Writers -> Saves] /\ review \in [Writers -> Reviews]
  BY DEF CascadeInv, TablesAreTyped, WritersAreTyped
<1>2. Copies(t) = HowOften(turns, t)
  BY DEF Copies, HowOften
<1>3. HowOften(turns, t) \in Nat
  BY <1>1, HowOftenType
<1>4. ASSUME NEW w \in Writers PROVE HowOften(todo[w], AsTurn(t)) \in Nat
  <2>1. todo[w] \in Seq(Statement)
    BY <1>1 DEF Saves
  <2> QED
    BY <2>1, HowOftenType
<1>5. ASSUME NEW p \in Loads PROVE Carries(load[p], turns, t) \in Nat
  <2>1. load[p] \in LoadRecord /\ \A k \in DOMAIN load[p].queue : load[p].queue[k] \in DOMAIN turns
    BY DEF CascadeInv, LoadsAreTyped, LoadRecord
  <2> QED
    BY <1>1, <2>1, CarriesType
<1>6. IsFiniteSet(WritersOf(t.review))
  <2>1. WritersOf(t.review) \in SUBSET (Loads \cup {t.review})
    BY DEF WritersOf, Writers, JobsWrite
  <2>2. IsFiniteSet(Loads)
    BY CascadeAssumption
  <2>3. IsFiniteSet(Loads \cup {t.review})
    BY <2>2, FS_AddElement
  <2> QED
    BY <2>1, <2>3, FS_Subset
<1> QED
  BY <1>2, <1>3, <1>4, <1>5, <1>6 DEF Held

CountsAreTyped ==
  \A t \in TurnRow : /\ Copies(t) \in Nat /\ IsFiniteSet(WritersOf(t.review))
                     /\ \A w \in Writers : Held(w, t) \in Nat

\* What is stored of a turn, and what each writer may still store, are numbers.
LEMMA CountsType == CascadeInv /\ JobsWrite => CountsAreTyped
  BY HeldType DEF CountsAreTyped

\* A turn's count, where a writer holds less than before by what is stored more.
Moves(w) ==
  /\ \A v \in Writers \ {w} : \A t \in TurnRow : Held(v, t)' = Held(v, t)
  /\ \A t \in TurnRow : t.review # review[w] => Copies(t)' = Copies(t)

\* The weight of a turn grows by as much as that of the writer that moves.
LEMMA WeightMoves ==
  ASSUME CascadeInv, JobsWrite, CascadeInv', JobsWrite', UNCHANGED review, NEW w \in Writers, Moves(w),
         NEW t \in TurnRow
  PROVE  /\ Weight(t) \in Nat /\ Weight(t)' \in Nat
         /\ review[w] = t.review =>
              Weight(t)' + Copies(t) + Held(w, t) = Weight(t) + Copies(t)' + Held(w, t)'
         /\ review[w] # t.review => Weight(t)' = Weight(t)
<1>0. CountsAreTyped'
  BY CountsType, PTL
<1>1. PICK S : S = WritersOf(t.review)
  OBVIOUS
<1>2. IsFiniteSet(S) /\ S = WritersOf(t.review)' /\ \A v \in S : v \in Writers /\ review[v] = t.review
  BY <1>1, HeldType DEF WritersOf
<1>3. PICK f : f = [v \in S |-> Held(v, t)]
  OBVIOUS
<1>4. PICK g : g = [v \in S |-> Held(v, t)']
  OBVIOUS
<1>5. \A v \in S : f[v] \in Nat /\ f[v] = Held(v, t)
  <2>1. \A v \in Writers : Held(v, t) \in Nat
    BY HeldType
  <2> QED
    BY <1>2, <1>3, <2>1
<1>6. \A v \in S : g[v] \in Nat /\ g[v] = Held(v, t)'
  <2>1. \A v \in Writers : Held(v, t)' \in Nat
    BY <1>0 DEF CountsAreTyped
  <2> QED
    BY <1>2, <1>4, <2>1
<1>7. Copies(t) \in Nat /\ Copies(t)' \in Nat
  <2>1. Copies(t) \in Nat
    BY HeldType
  <2>2. Copies(t)' \in Nat
    BY <1>0 DEF CountsAreTyped
  <2> QED
    BY <2>1, <2>2
<1>8. Weight(t) = Copies(t) + Total(f, S)
  BY <1>1, <1>3 DEF Weight
<1>9. Weight(t)' = Copies(t)' + Total(g, S)
  BY <1>2, <1>4 DEF Weight
<1>10. Total(f, S) \in Nat /\ Total(g, S) \in Nat
  BY <1>2, <1>5, <1>6, TotalType
<1>11. ASSUME review[w] = t.review PROVE Total(g, S) + f[w] = Total(f, S) + g[w]
  <2>1. w \in S
    BY <1>1, <1>11 DEF WritersOf
  <2>2. \A v \in S \ {w} : g[v] = f[v]
    BY <1>2, <1>5, <1>6 DEF Moves
  <2> QED
    BY <1>2, <1>5, <1>6, <2>1, <2>2, TotalOne
<1>12. ASSUME review[w] # t.review PROVE Weight(t)' = Weight(t)
  <2>1. \A v \in S : g[v] = f[v]
    BY <1>2, <1>5, <1>6, <1>12 DEF Moves
  <2>2. Total(g, S) = Total(f, S)
    BY <2>1, TotalSame
  <2>3. Copies(t)' = Copies(t)
    BY <1>12 DEF Moves
  <2> QED
    BY <1>8, <1>9, <2>2, <2>3
<1>13. ASSUME review[w] = t.review
       PROVE  Weight(t)' + Copies(t) + Held(w, t) = Weight(t) + Copies(t)' + Held(w, t)'
  <2>1. w \in S
    BY <1>1, <1>13 DEF WritersOf
  <2>2. f[w] = Held(w, t) /\ g[w] = Held(w, t)' /\ f[w] \in Nat /\ g[w] \in Nat
    BY <1>5, <1>6, <2>1
  <2>3. Total(g, S) + f[w] = Total(f, S) + g[w]
    BY <1>11, <1>13
  <2> QED
    BY <1>7, <1>8, <1>9, <1>10, <2>2, <2>3
<1> QED
  BY <1>7, <1>8, <1>9, <1>10, <1>12, <1>13

\* No turn of a running review is stored, and at most its job is about to.
LEMMA LightWhileRunning ==
  ASSUME CascadeInv, JobsWrite, NothingToDouble, JobStoresOnce, NEW t \in TurnRow,
         status[t.review] = "Running"
  PROVE  Copies(t) = 0 /\ Weight(t) <= 1
<1>1. PICK r \in Reviews : r = t.review
  BY DEF TurnRow
<1>2. Copies(t) = 0
  <2>1. turns \in Seq(TurnRow)
    BY DEF CascadeInv, TablesAreTyped
  <2>2. \A i \in DOMAIN turns : turns[i].review # r
    BY <1>1 DEF CascadeInv, ChildrenHaveParents
  <2>3. \A i \in DOMAIN turns : turns[i] # t
    BY <1>1, <2>2
  <2>4. HowOften(turns, t) = 0
    BY <2>1, <2>3, HowOftenType
  <2> QED
    BY <2>4, HeldType
<1>3. PICK S : S = WritersOf(t.review)
  OBVIOUS
<1>4. IsFiniteSet(S) /\ r \in S
  BY <1>1, <1>3, HeldType DEF WritersOf, Writers, JobsWrite
<1>5. PICK f : f = [v \in S |-> Held(v, t)]
  OBVIOUS
<1>6. \A v \in S : f[v] = Held(v, t) /\ f[v] \in Nat
  <2>1. \A v \in Writers : Held(v, t) \in Nat
    BY HeldType
  <2> QED
    BY <1>3, <1>5, <2>1 DEF WritersOf
<1>7. \A v \in S \ {r} : f[v] = 0
  <2>1. \A v \in S \ {r} : v \in Loads /\ review[v] = t.review
    BY <1>1, <1>3 DEF WritersOf, Writers, JobsWrite
  <2> QED
    BY <1>6, <2>1 DEF NothingToDouble
<1>8. Total(f, S) = f[r]
  BY <1>4, <1>6, <1>7, TotalAlone
<1>9. Held(r, t) <= 1
  <2>1. r \notin Loads /\ r \in Writers
    BY CascadeAssumption DEF Writers
  <2>2. HowOften(todo[r], AsTurn(t)) \in Nat
    BY <2>1, HeldType
  <2>3. Held(r, t) = HowOften(todo[r], AsTurn(t))
    BY <2>1, <2>2 DEF Held
  <2>4. Copies(t) + HowOften(todo[r], AsTurn(t)) <= 1
    BY <1>1 DEF JobStoresOnce
  <2> QED
    BY <1>2, <2>2, <2>3, <2>4
<1>10. Weight(t) = Copies(t) + Total(f, S)
  BY <1>3, <1>5 DEF Weight
<1>11. f[r] = Held(r, t) /\ f[r] \in Nat
  BY <1>4, <1>6
<1> QED
  BY <1>2, <1>8, <1>9, <1>10, <1>11

LightTurns ==
  \A t \in TurnRow : status[t.review] = "Running" => Copies(t) = 0 /\ Weight(t) <= 1

\* While a review runs none of its turns is stored, and at most one copy is to come.
LEMMA TurnsAreLight ==
  CascadeInv /\ JobsWrite /\ NothingToDouble /\ JobStoresOnce => LightTurns
  BY LightWhileRunning DEF LightTurns

\* The writer that moves may hold as much more as is stored, or no more than before.
Doubles(w) ==
  \A t \in TurnRow : t.review = review[w] =>
    Copies(t)' + Held(w, t)' <= Copies(t) + Held(w, t) + Copies(t)
Lightens(w) ==
  \A t \in TurnRow : t.review = review[w] =>
    Copies(t)' + Held(w, t)' <= Copies(t) + Held(w, t)

\* A review that has ended is not running again.
NeverAgain == \A r \in Reviews : status'[r] = "Running" => status[r] = "Running"

\* No statement and no crash lets an ended review run again.
LEMMA StatusEnds ==
  ASSUME CascadeInv, [CascadeNext]_cascadeVars
  PROVE  NeverAgain
<1>1. ASSUME NEW w \in Writers, Execute(w) PROVE NeverAgain
  <2>1. PICK s \in Statement :
          /\ s.kind = "review" => \A r \in Reviews : status'[r] = IF r = review[w] THEN s.status ELSE status[r]
          /\ s.kind = "session" => UNCHANGED status
          /\ s.kind = "turn" => UNCHANGED status
          /\ s.kind = "message" => UNCHANGED status
    BY <1>1, StatementWrites
  <2> QED
    BY <2>1, StatementKinds DEF NeverAgain
<1>2. ASSUME \A w \in Writers : ~Execute(w) PROVE NeverAgain
  BY <1>2, OnlyStatementsWrite DEF NeverAgain
<1> QED
  BY <1>1, <1>2

\* Only one writer moves when the tables of turns stay as they are.
LEMMA OneWriterMoves ==
  ASSUME NEW w \in Writers, UNCHANGED turns, \A v \in Writers \ {w} : todo'[v] = todo[v],
         \A p \in Loads \ {w} : load'[p] = load[p]
  PROVE  Moves(w)
<1>1. ASSUME NEW v \in Writers \ {w}, NEW t \in TurnRow PROVE Held(v, t)' = Held(v, t)
  BY DEF Held
<1>2. \A t \in TurnRow : Copies(t)' = Copies(t)
  BY DEF Copies
<1> QED
  BY <1>1, <1>2 DEF Moves

\* A statement moves what its writer holds into the table.
LEMMA ExecuteMoves ==
  ASSUME CascadeInv, JobsWrite, NEW w \in Writers, Execute(w)
  PROVE  Moves(w) /\ Lightens(w)
<1>1. PICK s \in Statement :
        /\ todo[w] # <<>> /\ s = Head(todo[w]) /\ todo[w] \in Saves /\ todo'[w] = Tail(todo[w])
        /\ \A v \in Writers : v # w => todo'[v] = todo[v]
        /\ UNCHANGED <<active, job, review, load, errors>>
        /\ s.kind # "turn" => UNCHANGED turns
        /\ s.kind = "turn" =>
             turns' = Append(turns, [review |-> review[w], agent |-> s.agent, index |-> s.index])
  <2>1. \A s \in Statement : s.kind \in {"review", "session", "turn", "message"}
    BY StatementKinds
  <2> QED
    BY <2>1, StatementWrites
<1>2. turns \in Seq(TurnRow)
  BY DEF CascadeInv, TablesAreTyped
<1>3. PICK rec : rec = [review |-> review[w], agent |-> s.agent, index |-> s.index]
  OBVIOUS
<1>4. s.kind = "turn" => rec \in TurnRow /\ turns' = Append(turns, rec) /\ s = AsTurn(rec)
  <2>1. review[w] \in Reviews
    BY DEF CascadeInv, WritersAreTyped
  <2>2. s.kind = "turn" => s.agent \in Agents /\ s.index \in 1 .. TurnCount
    BY StatementKinds
  <2>3. s.kind = "turn" => s = [kind |-> "turn", agent |-> s.agent, index |-> s.index]
    BY DEF Statement
  <2> QED
    BY <1>1, <1>3, <2>1, <2>2, <2>3 DEF TurnRow, AsTurn
<1>5. ASSUME NEW p \in Loads, NEW t \in TurnRow
      PROVE  Carries(load'[p], turns', t) = Carries(load[p], turns, t)
  <2>1. load[p] \in LoadRecord /\ \A k \in DOMAIN load[p].queue : load[p].queue[k] \in DOMAIN turns
    BY DEF CascadeInv, LoadsAreTyped, LoadRecord
  <2>2. \A x \in TurnRow : Carries(load[p], Append(turns, x), t) = Carries(load[p], turns, t)
    BY <1>2, <2>1, CarriesType
  <2> QED
    BY <1>1, <1>4, <2>2
<1>6. ASSUME NEW v \in Writers \ {w}, NEW t \in TurnRow PROVE Held(v, t)' = Held(v, t)
  BY <1>1, <1>5 DEF Held
<1>7. ASSUME NEW t \in TurnRow
      PROVE  /\ s.kind # "turn" => Copies(t)' = Copies(t)
             /\ s.kind = "turn" => Copies(t)' = Copies(t) + (IF rec = t THEN 1 ELSE 0)
  <2>1. s.kind # "turn" => Copies(t)' = Copies(t)
    BY <1>1 DEF Copies
  <2>2. ASSUME s.kind = "turn" PROVE Copies(t)' = Copies(t) + (IF rec = t THEN 1 ELSE 0)
    <3>1. rec \in TurnRow /\ turns' = Append(turns, rec)
      BY <1>4, <2>2
    <3>2. \A y \in TurnRow : HowOften(Append(turns, y), t) = HowOften(turns, t) + (IF y = t THEN 1 ELSE 0)
      BY <1>2, HowOftenInTurn
    <3>3. Copies(t)' = HowOften(turns', t) /\ Copies(t) = HowOften(turns, t)
      BY DEF Copies, HowOften
    <3> QED
      BY <3>1, <3>2, <3>3
  <2> QED
    BY <2>1, <2>2
<1>8. ASSUME NEW t \in TurnRow, t.review # review[w] PROVE Copies(t)' = Copies(t)
  <2>1. Copies(t) \in Nat
    BY HeldType
  <2>2. rec # t
    BY <1>3, <1>8
  <2> QED
    BY <1>7, <2>1, <2>2
<1>9. ASSUME NEW t \in TurnRow, t.review = review[w]
      PROVE  Copies(t)' + Held(w, t)' <= Copies(t) + Held(w, t)
  <2>1. PICK x \in Statement : x = AsTurn(t) /\ x.kind = "turn"
    BY AsTurnIsStatement
  <2>2. PICK q \in Seq(Statement) : q = todo[w] /\ q # <<>> /\ s = Head(q) /\ Tail(q) \in Seq(Statement)
    <3>1. todo[w] \in Seq(Statement)
      BY <1>1 DEF Saves
    <3> QED
      BY <1>1, <3>1
  <2>3. HowOften(q, x) = HowOften(Tail(q), x) + (IF s = x THEN 1 ELSE 0)
    BY <2>2, HowOftenInTurn
  <2>4. HowOften(q, x) \in Nat /\ HowOften(Tail(q), x) \in Nat /\ Copies(t) \in Nat
    BY <2>2, HowOftenType, HeldType
  <2>5. s = x => s.kind = "turn" /\ rec = t
    BY <1>3, <2>1, <1>9, AsTurnIsStatement
  <2>6. s.kind = "turn" /\ rec = t => s = x
    BY <1>4, <2>1
  <2>7. Copies(t)' = Copies(t) + (IF s = x THEN 1 ELSE 0)
    BY <1>7, <2>4, <2>5, <2>6
  <2>8. PICK c \in Nat : /\ Held(w, t) = HowOften(q, x) + c /\ Held(w, t)' = HowOften(Tail(q), x) + c
    <3>1. CASE w \in Loads
      <4>1. Carries(load[w], turns, t) \in Nat
        BY <3>1, HeldType
      <4>2. Held(w, t) = HowOften(q, x) + Carries(load[w], turns, t)
        BY <2>1, <2>2, <3>1 DEF Held
      <4>3. Held(w, t)' = HowOften(Tail(q), x) + Carries(load[w], turns, t)
        BY <1>1, <1>5, <2>1, <2>2, <3>1 DEF Held
      <4> QED
        BY <4>1, <4>2, <4>3
    <3>2. CASE w \notin Loads
      BY <1>1, <2>1, <2>2, <3>2 DEF Held
    <3> QED
      BY <3>1, <3>2
  <2> QED
    BY <2>3, <2>4, <2>7, <2>8
<1> QED
  BY <1>6, <1>8, <1>9 DEF Moves, Lightens

\* A writer that drops its save holds no more.
LEMMA FailureLightens ==
  ASSUME CascadeInv, JobsWrite, NEW w \in Writers, StatementFails(w)
  PROVE  Moves(w) /\ Lightens(w)
<1>1. /\ todo' = [todo EXCEPT ![w] = <<>>] /\ UNCHANGED <<turns, load>>
      /\ todo \in [Writers -> Saves]
  BY DEF StatementFails, tables, CascadeInv, WritersAreTyped
<1>2. Moves(w)
  BY <1>1, OneWriterMoves
<1>3. ASSUME NEW t \in TurnRow
      PROVE  /\ Copies(t)' = Copies(t) /\ Copies(t) \in Nat
             /\ Held(w, t) \in Nat /\ Held(w, t)' \in Nat /\ Held(w, t)' <= Held(w, t)
  <2>1. Copies(t)' = Copies(t) /\ Copies(t) \in Nat
    BY <1>1, HeldType DEF Copies
  <2>2. HowOften(<<>>, AsTurn(t)) = 0
    <3>1. <<>> \in Seq(Statement) /\ DOMAIN <<>> = {}
      OBVIOUS
    <3> QED
      BY <3>1, HowOftenType
  <2>3. HowOften(todo[w], AsTurn(t)) \in Nat /\ (w \in Loads => Carries(load[w], turns, t) \in Nat)
    BY HeldType
  <2>4. todo'[w] = <<>>
    BY <1>1
  <2>5. PICK c \in Nat : c = IF w \in Loads THEN Carries(load[w], turns, t) ELSE 0
    BY <2>3
  <2>6. Held(w, t) = HowOften(todo[w], AsTurn(t)) + c
    BY <2>5 DEF Held
  <2>7. Held(w, t)' = 0 + c
    BY <1>1, <2>2, <2>4, <2>5 DEF Held
  <2> QED
    BY <2>1, <2>3, <2>5, <2>6, <2>7
<1> QED
  BY <1>2, <1>3 DEF Lightens

\* A load that holds no more than before.
LEMMA LoadLightens ==
  ASSUME CascadeInv, JobsWrite, NEW p \in Loads, UNCHANGED turns,
         \A v \in Writers \ {p} : todo'[v] = todo[v], \A q \in Loads \ {p} : load'[q] = load[q],
         \A t \in TurnRow : t.review = review[p] =>
           HowOften(todo'[p], AsTurn(t)) + Carries(load'[p], turns, t)
             \in 0 .. HowOften(todo[p], AsTurn(t)) + Carries(load[p], turns, t)
  PROVE  Moves(p) /\ Lightens(p)
<1>1. p \in Writers
  BY DEF Writers
<1>2. Moves(p)
  BY <1>1, OneWriterMoves
<1>3. ASSUME NEW t \in TurnRow, t.review = review[p]
      PROVE  Copies(t)' + Held(p, t)' <= Copies(t) + Held(p, t)
  <2>1. Copies(t)' = Copies(t) /\ Copies(t) \in Nat
    BY HeldType DEF Copies
  <2>2. /\ Held(p, t) = HowOften(todo[p], AsTurn(t)) + Carries(load[p], turns, t)
        /\ Held(p, t)' = HowOften(todo'[p], AsTurn(t)) + Carries(load'[p], turns, t)
    BY DEF Held
  <2>3. Held(p, t)' \in 0 .. Held(p, t)
    BY <1>3, <2>2
  <2>4. Held(p, t) \in Nat
    BY <1>1, HeldType
  <2> QED
    BY <2>1, <2>3, <2>4
<1> QED
  BY <1>2, <1>3 DEF Lightens

\* A load that only reads.
LEMMA ReadingLightens ==
  ASSUME CascadeInv, JobsWrite, NEW p \in Loads, UNCHANGED <<turns, todo>>,
         \A q \in Loads \ {p} : load'[q] = load[q],
         \A t \in TurnRow : t.review = review[p] =>
           Carries(load'[p], turns, t) \in 0 .. Carries(load[p], turns, t)
  PROVE  Moves(p) /\ Lightens(p)
<1>1. ASSUME NEW t \in TurnRow, t.review = review[p]
      PROVE  HowOften(todo'[p], AsTurn(t)) + Carries(load'[p], turns, t)
               \in 0 .. HowOften(todo[p], AsTurn(t)) + Carries(load[p], turns, t)
  <2>1. p \in Writers
    BY DEF Writers
  <2>2. PICK h \in Nat : h = HowOften(todo[p], AsTurn(t))
    BY <2>1, HeldType
  <2>3. PICK c \in Nat : c = Carries(load[p], turns, t)
    BY <2>1, HeldType
  <2>4. PICK d \in 0 .. c : d = Carries(load'[p], turns, t)
    BY <1>1, <2>3
  <2>5. h + d \in 0 .. h + c
    OBVIOUS
  <2> QED
    BY <2>2, <2>3, <2>4, <2>5
<1> QED
  BY <1>1, LoadLightens

\* Outside the messages and the check a load carries nothing.
LEMMA CarriesNothing ==
  ASSUME NEW l, l.pc \notin {"messages", "check"} \/ l.status # "Running", NEW ts, NEW t
  PROVE  Carries(l, ts, t) = 0
  BY DEF Carries

\* Nor does one that has read nothing.
LEMMA EmptyHanded ==
  ASSUME NEW l, l.read = <<>>, l.queue = <<>>, NEW ts \in Seq(TurnRow), NEW t \in TurnRow
  PROVE  Carries(l, ts, t) = 0
<1>1. <<>> \in Seq(Statement) /\ <<>> \in Seq(TurnRow) /\ <<>> \in Seq(Nat) /\ DOMAIN <<>> = {}
  OBVIOUS
<1>2. HowOften(<<>>, AsTurn(t)) = 0 /\ HowOften(<<>>, t) = 0
  BY <1>1, HowOftenType
<1>3. TurnsAt(ts, <<>>) = <<>>
  BY <1>1, TurnsAtType
<1> QED
  BY <1>2, <1>3 DEF Carries

\* A load begins.
LEMMA LoadRowMoves ==
  ASSUME CascadeInv, JobsWrite, NEW p \in Loads, LoadRow(p)
  PROVE  /\ Moves(p) /\ Lightens(p) /\ UNCHANGED <<turns, todo>>
         /\ \A q \in Loads \ {p} : load'[q] = load[q]
         /\ load[p].pc = "idle" /\ load'[p].pc = "sessions" /\ load'[p].status = status[review[p]]
         /\ load'[p].queue = <<>> /\ load'[p].read = <<>>
<1>1. PICK b : b = (status[review[p]] = "Completed" /\ todo[review[p]] = <<>> /\ errors = 0)
  OBVIOUS
<1>2. PICK l : l = [NoLoad EXCEPT !.pc = "sessions", !.status = status[review[p]], !.whole = b]
  OBVIOUS
<1>3. load' = [load EXCEPT ![p] = l] /\ UNCHANGED <<turns, todo>> /\ load[p].pc = "idle"
  BY <1>1, <1>2 DEF LoadRow, tables
<1>4. load \in [Loads -> LoadRecord]
  BY DEF CascadeInv, LoadsAreTyped, LoadRecord
<1>5. load'[p] = l /\ \A q \in Loads \ {p} : load'[q] = load[q]
  BY <1>3, <1>4
<1>6. l.pc = "sessions" /\ l.status = status[review[p]] /\ l.queue = <<>> /\ l.read = <<>>
  BY <1>2 DEF NoLoad
<1>7. \A t \in TurnRow : Carries(load'[p], turns, t) = 0 /\ Carries(load[p], turns, t) = 0
  BY <1>3, <1>5, <1>6, CarriesNothing
<1>8. 0 \in 0 .. 0
  OBVIOUS
<1>9. Moves(p) /\ Lightens(p)
  BY <1>3, <1>5, <1>7, <1>8, ReadingLightens
<1> QED
  BY <1>3, <1>5, <1>6, <1>9

\* A load reads the session.
LEMMA LoadSessionsMoves ==
  ASSUME CascadeInv, JobsWrite, StagesOfLoads, NEW p \in Loads, LoadSessions(p)
  PROVE  /\ Moves(p) /\ Lightens(p) /\ UNCHANGED <<turns, todo>>
         /\ \A q \in Loads \ {p} : load'[q] = load[q]
         /\ load'[p].pc \in {"turns", "check"} /\ load'[p].queue = <<>>
         /\ load[p].pc = "sessions" /\ load'[p].status = load[p].status
         /\ load'[p].pc = "turns" => \A k \in DOMAIN load'[p].read : load'[p].read[k].kind = "session"
<1>1. PICK a : a = session[review[p]]
  OBVIOUS
<1>2. PICK c : c = IF a = 0 THEN <<>> ELSE <<[kind |-> "session", agent |-> a]>>
  OBVIOUS
<1>3. PICK stop : stop = IF a = 0 THEN "check" ELSE "turns"
  OBVIOUS
<1>4. load \in [Loads -> LoadRecord] /\ load[p].pc = "sessions" /\ load[p].queue = <<>>
  BY DEF CascadeInv, LoadsAreTyped, LoadRecord, LoadSessions, StagesOfLoads
<1>5. PICK l : l = [load[p] EXCEPT !.pc = stop, !.read = c]
  OBVIOUS
<1>6. l.pc = stop /\ l.read = c /\ l.queue = <<>> /\ l.status = load[p].status
  BY <1>4, <1>5 DEF LoadRecord
<1>7. load' = [load EXCEPT ![p] = l] /\ UNCHANGED <<turns, todo>>
  BY <1>1, <1>2, <1>3, <1>4, <1>5 DEF LoadSessions, LoadRecord, tables
<1>8. load'[p] = l /\ \A q \in Loads \ {p} : load'[q] = load[q]
  BY <1>4, <1>7
<1>9. stop = "turns" => \A k \in DOMAIN c : c[k].kind = "session"
  BY <1>2, <1>3
<1>10. ASSUME NEW t \in TurnRow PROVE Carries(l, turns, t) = 0 /\ Carries(load[p], turns, t) = 0
  <2>1. turns \in Seq(TurnRow)
    BY DEF CascadeInv, TablesAreTyped
  <2>2. CASE a = 0
    <3>1. l.read = <<>>
      BY <1>2, <1>6, <2>2
    <3> QED
      BY <1>4, <1>6, <2>1, <3>1, EmptyHanded, CarriesNothing
  <2>3. CASE a # 0
    BY <1>3, <1>4, <1>6, <2>3, CarriesNothing
  <2> QED
    BY <2>2, <2>3
<1>11. 0 \in 0 .. 0
  OBVIOUS
<1>12. Moves(p) /\ Lightens(p)
  BY <1>7, <1>8, <1>10, <1>11, ReadingLightens
<1> QED
  BY <1>3, <1>4, <1>6, <1>7, <1>8, <1>9, <1>12

\* A load has read all it wants.
LEMMA LoadEndsMoves ==
  ASSUME CascadeInv, JobsWrite, NEW p \in Loads, LoadEnds(p)
  PROVE  /\ Moves(p) /\ Lightens(p) /\ UNCHANGED <<turns, todo>>
         /\ \A q \in Loads \ {p} : load'[q] = load[q]
         /\ load[p].pc = "messages" /\ load'[p].pc = "check" /\ load'[p].status = load[p].status
         /\ load'[p].queue = <<>>
<1>1. load \in [Loads -> LoadRecord]
  BY DEF CascadeInv, LoadsAreTyped, LoadRecord
<1>2. PICK l : l = [load[p] EXCEPT !.pc = "check"]
  OBVIOUS
<1>3. /\ l.pc = "check" /\ l.read = load[p].read /\ l.queue = load[p].queue /\ l.status = load[p].status
  BY <1>1, <1>2 DEF LoadRecord
<1>4. /\ load' = [load EXCEPT ![p] = l] /\ UNCHANGED <<turns, todo>>
      /\ load[p].pc = "messages" /\ load[p].queue = <<>>
  BY <1>1, <1>2 DEF LoadEnds, LoadRecord, tables
<1>5. load'[p] = l /\ \A q \in Loads \ {p} : load'[q] = load[q]
  BY <1>1, <1>4
<1>6. ASSUME NEW t \in TurnRow PROVE Carries(load'[p], turns, t) \in 0 .. Carries(load[p], turns, t)
  <2>1. Carries(l, turns, t) = Carries(load[p], turns, t)
    BY <1>3, <1>4 DEF Carries
  <2>2. p \in Writers
    BY DEF Writers
  <2>3. Carries(load[p], turns, t) \in Nat
    BY <2>2, HeldType
  <2> QED
    BY <1>5, <2>1, <2>3
<1>7. Moves(p) /\ Lightens(p)
  BY <1>4, <1>5, <1>6, ReadingLightens
<1> QED
  BY <1>3, <1>4, <1>5, <1>7

\* The answer is given.
LEMMA AnswerMoves ==
  ASSUME CascadeInv, JobsWrite, NEW p \in Loads, Answer(p)
  PROVE  /\ Moves(p) /\ Lightens(p) /\ UNCHANGED <<turns, todo>>
         /\ \A q \in Loads \ {p} : load'[q] = load[q]
         /\ load'[p] = NoLoad
<1>1. load \in [Loads -> LoadRecord]
  BY DEF CascadeInv, LoadsAreTyped, LoadRecord
<1>2. load' = [load EXCEPT ![p] = NoLoad] /\ UNCHANGED <<turns, todo>> /\ load[p].pc = "save"
  BY DEF Answer, tables
<1>3. load'[p] = NoLoad /\ \A q \in Loads \ {p} : load'[q] = load[q]
  BY <1>1, <1>2
<1>4. NoLoad.pc = "idle"
  BY DEF NoLoad
<1>5. \A t \in TurnRow : Carries(load'[p], turns, t) = 0 /\ Carries(load[p], turns, t) = 0
  BY <1>2, <1>3, <1>4, CarriesNothing
<1>6. 0 \in 0 .. 0
  OBVIOUS
<1>7. Moves(p) /\ Lightens(p)
  BY <1>2, <1>3, <1>5, <1>6, ReadingLightens
<1> QED
  BY <1>2, <1>3, <1>7

\* A save has as many of a turn as the children that are saved.
LEMMA SaveCounts ==
  ASSUME NEW c \in Seq(Statement), NEW s \in {"Completed", "Failed"}, NEW x, x.kind = "turn"
  PROVE  HowOften(SaveReview(s, c), x) = HowOften(c, x)
<1>1. PICK h \in Statement : h = Upsert(s) /\ h.kind = "review"
  <2>1. PICK u : u = [kind |-> "review", status |-> s]
    OBVIOUS
  <2>2. u \in Statement /\ u.kind = "review"
    BY <2>1 DEF Statement
  <2> QED
    BY <2>1, <2>2 DEF Upsert
<1>2. PICK one : one = <<h>>
  OBVIOUS
<1>3. one \in Seq(Statement) /\ DOMAIN one = {1} /\ one[1] = h
  BY <1>2
<1>4. \A k \in DOMAIN one : one[k] # x
  BY <1>1, <1>3
<1>5. HowOften(one, x) = 0
  BY <1>3, <1>4, HowOftenType
<1>6. HowOften(one \o c, x) = HowOften(one, x) + HowOften(c, x)
  BY <1>3, HowOftenJoined
<1>7. HowOften(c, x) \in Nat
  BY HowOftenType
<1> QED
  BY <1>1, <1>2, <1>5, <1>6, <1>7 DEF SaveReview

\* A load marks the review: what it carried is what it is about to store.
LEMMA ReconcileMoves ==
  ASSUME CascadeInv, JobsWrite, NEW p \in Loads, Reconcile(p)
  PROVE  /\ Moves(p) /\ Lightens(p) /\ UNCHANGED turns
         /\ \A v \in Writers \ {p} : todo'[v] = todo[v]
         /\ \A q \in Loads \ {p} : load'[q] = load[q]
         /\ load[p].pc = "check"
         /\ \/ load'[p] = NoLoad
            \/ load'[p].pc = "save" /\ load'[p].queue = load[p].queue
<1>1. load \in [Loads -> LoadRecord] /\ todo \in [Writers -> Saves] /\ p \in Writers
  BY DEF CascadeInv, LoadsAreTyped, LoadRecord, WritersAreTyped, Writers
<1>2. load[p].pc = "check" /\ UNCHANGED turns
  BY DEF Reconcile, tables
<1>3. CASE /\ load[p].status = "Running"
           /\ todo' = [todo EXCEPT ![p] = SaveReview("Failed", load[p].read)]
           /\ load' = [load EXCEPT ![p].pc = "save"]
  <2>1. PICK l : l = [load[p] EXCEPT !.pc = "save"]
    OBVIOUS
  <2>2. l.pc = "save" /\ l.queue = load[p].queue
    BY <1>1, <2>1 DEF LoadRecord
  <2>3. load' = [load EXCEPT ![p] = l]
    BY <1>1, <1>3, <2>1 DEF LoadRecord
  <2>4. load'[p] = l /\ \A q \in Loads \ {p} : load'[q] = load[q]
    BY <1>1, <2>3
  <2>5. PICK c \in Seq(Statement) : c = load[p].read
    BY <1>1 DEF LoadRecord, Children, Chains
  <2>6. todo'[p] = SaveReview("Failed", c) /\ \A v \in Writers \ {p} : todo'[v] = todo[v]
    BY <1>1, <1>3, <2>5
  <2>7. ASSUME NEW t \in TurnRow
        PROVE  HowOften(todo'[p], AsTurn(t)) + Carries(load'[p], turns, t)
                 \in 0 .. HowOften(todo[p], AsTurn(t)) + Carries(load[p], turns, t)
    <3>1. PICK x \in Statement : x = AsTurn(t) /\ x.kind = "turn"
      BY AsTurnIsStatement
    <3>5. PICK n \in Nat : n = HowOften(c, x)
      BY HowOftenType
    <3>7. HowOften(todo'[p], x) = n
      BY <2>6, <3>1, <3>5, SaveCounts
    <3>8. Carries(load'[p], turns, t) = 0
      BY <2>2, <2>4, CarriesNothing
    <3>9. PICK m \in Nat : Carries(load[p], turns, t) = n + m
      <4>1. HowOften(TurnsAt(turns, load[p].queue), t) \in Nat
        <5>1. turns \in Seq(TurnRow) /\ \A k \in DOMAIN load[p].queue : load[p].queue[k] \in DOMAIN turns
          BY DEF CascadeInv, TablesAreTyped, LoadsAreTyped
        <5> QED
          BY <1>1, <5>1, CarriesType
      <4> QED
        BY <1>2, <1>3, <2>5, <3>1, <3>5, <4>1 DEF Carries
    <3>10. PICK i \in Nat : i = HowOften(todo[p], x)
      BY <1>1, <3>1, HeldType
    <3>11. n + 0 \in 0 .. i + (n + m)
      OBVIOUS
    <3> QED
      BY <3>1, <3>7, <3>8, <3>9, <3>10, <3>11
  <2>8. Moves(p) /\ Lightens(p)
    BY <1>2, <2>4, <2>6, <2>7, LoadLightens
  <2> QED
    BY <1>2, <2>2, <2>4, <2>6, <2>8
<1>4. CASE load' = [load EXCEPT ![p] = NoLoad] /\ UNCHANGED todo
  <2>1. load'[p] = NoLoad /\ \A q \in Loads \ {p} : load'[q] = load[q]
    BY <1>1, <1>4
  <2>2. NoLoad.pc = "idle"
    BY DEF NoLoad
  <2>3. ASSUME NEW t \in TurnRow PROVE Carries(load'[p], turns, t) \in 0 .. Carries(load[p], turns, t)
    <3>1. Carries(load'[p], turns, t) = 0
      BY <2>1, <2>2, CarriesNothing
    <3>2. Carries(load[p], turns, t) \in Nat
      BY <1>1, HeldType
    <3> QED
      BY <3>1, <3>2
  <2>4. Moves(p) /\ Lightens(p)
    BY <1>2, <1>4, <2>1, <2>3, ReadingLightens
  <2> QED
    BY <1>2, <1>4, <2>1, <2>4
<1> QED
  BY <1>3, <1>4 DEF Reconcile

\* What is said in a turn is no turn.
LEMMA SaidIsNoTurn ==
  ASSUME NEW ms \in Seq(MessageRow), NEW i, NEW x, x.kind = "turn"
  PROVE  Said(ms, i) \in Seq(Statement) /\ HowOften(Said(ms, i), x) = 0
<1>1. PICK s : s = Said(ms, i)
  OBVIOUS
<1>2. s \in Seq(Statement)
  <2>1. <<>> \in Seq(TurnRow)
    OBVIOUS
  <2> QED
    BY <1>1, <2>1, ReadIsTyped
<1>3. PICK q : q = MessagesOf(ms, i)
  OBVIOUS
<1>4. s = [k \in DOMAIN q |-> AsMessage(q[k])]
  BY <1>1, <1>3 DEF Said
<1>5. \A k \in DOMAIN s : s[k].kind = "message"
  BY <1>4 DEF AsMessage
<1>6. \A k \in DOMAIN s : s[k] # x
  BY <1>5
<1> QED
  BY <1>1, <1>2, <1>6, HowOftenType

\* A load reads a turn with its messages: it has read what it was to read.
LEMMA LoadMessagesMoves ==
  ASSUME CascadeInv, JobsWrite, LoadsSee, NEW p \in Loads, LoadMessages(p)
  PROVE  /\ Moves(p) /\ Lightens(p) /\ UNCHANGED <<turns, todo>>
         /\ \A q \in Loads \ {p} : load'[q] = load[q]
         /\ load[p].pc = "messages" /\ load'[p].pc = "messages" /\ load'[p].status = load[p].status
<1>1. PICK now \in LoadRecord : now = load[p] /\ now.pc = "messages" /\ now.queue # <<>>
  BY DEF CascadeInv, LoadsAreTyped, LoadRecord, LoadMessages
<1>2. /\ load \in [Loads -> LoadRecord] /\ turns \in Seq(TurnRow) /\ messages \in Seq(MessageRow)
      /\ \A k \in DOMAIN now.queue : now.queue[k] \in DOMAIN turns
      /\ UNCHANGED <<turns, todo>>
  BY <1>1 DEF CascadeInv, LoadsAreTyped, TablesAreTyped, LoadRecord, MessageRow, LoadMessages, tables
<1>3. \A k \in DOMAIN now.queue : turns[now.queue[k]].review = review[p]
  BY <1>1 DEF LoadsSee, LoadSees
<1>4. PICK q \in Seq(Nat) : q = now.queue /\ q # <<>>
  BY <1>1 DEF LoadRecord
<1>5. PICK i \in DOMAIN turns : i = Head(q) /\ turns[i].review = review[p] /\ turns[i] \in TurnRow
  <2>1. 1 \in DOMAIN q /\ Head(q) = q[1]
    BY <1>4
  <2> QED
    BY <1>2, <1>3, <1>4, <2>1
<1>6. PICK read \in Seq(Statement) : read = now.read
  BY DEF LoadRecord, Children, Chains
<1>7. PICK s \in Statement : s = AsTurn(turns[i])
  BY <1>5, AsTurnIsStatement
<1>8. PICK said \in Seq(Statement) : said = Said(messages, i)
  BY <1>2, ReadIsTyped
<1>9. PICK more \in Seq(Statement) : more = read \o <<s>>
  <2>1. read \o <<s>> \in Seq(Statement)
    OBVIOUS
  <2> QED
    BY <2>1
<1>10. PICK l : l = [now EXCEPT !.queue = Tail(q), !.read = more \o said]
  OBVIOUS
<1>11. /\ l.pc = "messages" /\ l.queue = Tail(q) /\ l.read = more \o said /\ l.status = now.status
  BY <1>1, <1>10 DEF LoadRecord
<1>12. load' = [load EXCEPT ![p] = l]
  <2>1. said = [k \in DOMAIN Under(i) |->
                  [kind |-> "message", agent |-> Under(i)[k].agent, index |-> Under(i)[k].index]]
    BY <1>8 DEF Said, MessagesOf, Under, AsMessage
  <2>2. s = [kind |-> "turn", agent |-> turns[i].agent, index |-> turns[i].index]
    BY <1>7 DEF AsTurn
  <2>3. load' = [load EXCEPT ![p].queue = Tail(@), ![p].read = @ \o <<s>> \o said]
    BY <1>1, <1>4, <1>5, <2>1, <2>2 DEF LoadMessages
  <2>4. l = [now EXCEPT !.queue = Tail(@), !.read = @ \o <<s>> \o said]
    BY <1>1, <1>4, <1>6, <1>9, <1>10 DEF LoadRecord
  <2> QED
    BY <1>1, <1>2, <2>3, <2>4 DEF LoadRecord
<1>13. load'[p] = l /\ \A v \in Loads \ {p} : load'[v] = load[v]
  BY <1>2, <1>12
<1>14. ASSUME NEW t \in TurnRow, t.review = review[p]
       PROVE  Carries(l, turns, t) \in 0 .. Carries(now, turns, t)
  <2>1. PICK x \in Statement : x = AsTurn(t) /\ x.kind = "turn"
    BY AsTurnIsStatement
  <2>2. PICK one : one = IF turns[i] = t THEN 1 ELSE 0
    OBVIOUS
  <2>3. one \in Nat
    BY <2>2
  <2>4. s = x <=> turns[i] = t
    BY <1>5, <1>7, <1>14, <2>1, AsTurnIsStatement
  <2>5. HowOften(read, x) \in Nat /\ HowOften(more, x) = HowOften(read, x) + one
    <3>1. \A y \in Statement : HowOften(Append(read, y), x) = HowOften(read, x) + (IF y = x THEN 1 ELSE 0)
      BY HowOftenInTurn
    <3>2. Append(read, s) = more
      BY <1>9
    <3>3. HowOften(read, x) \in Nat
      BY HowOftenType
    <3> QED
      BY <2>2, <2>4, <3>1, <3>2, <3>3
  <2>6. HowOften(more \o said, x) = HowOften(read, x) + one
    <3>1. HowOften(said, x) = 0
      BY <1>2, <1>8, <2>1, SaidIsNoTurn
    <3>2. HowOften(more \o said, x) = HowOften(more, x) + HowOften(said, x)
      BY HowOftenJoined
    <3> QED
      BY <2>3, <2>5, <3>1, <3>2
  <2>7. PICK rest \in Seq(TurnRow) : rest = TurnsAt(turns, Tail(q))
                                  /\ HowOften(TurnsAt(turns, q), t) = HowOften(rest, t) + one
    <3>1. PICK all \in Seq(TurnRow) : all = TurnsAt(turns, q) /\ all # <<>> /\ Head(all) = turns[i]
                                      /\ Tail(all) = TurnsAt(turns, Tail(q))
      BY <1>2, <1>4, <1>5, TurnsAtType
    <3>2. HowOften(all, t) = HowOften(Tail(all), t) + (IF Head(all) = t THEN 1 ELSE 0)
      BY <3>1, HowOftenInTurn
    <3>3. Tail(all) \in Seq(TurnRow)
      BY <3>1
    <3> QED
      BY <2>2, <3>1, <3>2, <3>3
  <2>8. PICK m \in Nat : m = HowOften(rest, t)
    BY HowOftenType
  <2>9. PICK n \in Nat : n = HowOften(read, x)
    BY <2>5
  <2>10. CASE now.status = "Running"
    <3>1. Carries(now, turns, t) = n + (m + one)
      BY <1>1, <1>4, <1>6, <2>1, <2>7, <2>8, <2>9, <2>10 DEF Carries
    <3>2. Carries(l, turns, t) = (n + one) + m
      BY <1>11, <2>1, <2>6, <2>7, <2>8, <2>9, <2>10 DEF Carries
    <3>3. (n + one) + m \in 0 .. n + (m + one)
      BY <2>3
    <3> QED
      BY <3>1, <3>2, <3>3
  <2>11. CASE now.status # "Running"
    <3>1. Carries(now, turns, t) = 0 /\ Carries(l, turns, t) = 0
      BY <1>11, <2>11, CarriesNothing
    <3>2. 0 \in 0 .. 0
      OBVIOUS
    <3> QED
      BY <3>1, <3>2
  <2> QED
    BY <2>10, <2>11
<1>15. Moves(p) /\ Lightens(p)
  BY <1>1, <1>2, <1>13, <1>14, ReadingLightens
<1> QED
  BY <1>1, <1>2, <1>11, <1>13, <1>15

\* The places of a review's turns hold each turn as often as it is stored.
LEMMA PlacesCount ==
  ASSUME NEW ts \in Seq(TurnRow), NEW r, NEW t
  PROVE  HowOften(TurnsAt(ts, PlacesOf(ts, r)), t) \in 0 .. HowOften(ts, t)
<1>1. PICK n \in Nat : n = Len(ts) /\ DOMAIN ts = 1 .. n
  OBVIOUS
<1>2. PICK q \in Seq(DOMAIN ts) : /\ q = PlacesOf(ts, r)
                                  /\ \A k, l \in DOMAIN q : k < l => q[k] < q[l]
  BY PlacesAreTurns
<1>3. PICK m \in Nat : m = Len(q) /\ DOMAIN q = 1 .. m /\ \A k \in 1 .. m : q[k] \in 1 .. n
  BY <1>1
<1>4. PICK s : s = TurnsAt(ts, q)
  OBVIOUS
<1>5. s = [k \in 1 .. m |-> ts[q[k]]]
  BY <1>3, <1>4 DEF TurnsAt
<1>6. PICK K, I : K = {k \in 1 .. m : s[k] = t} /\ I = {i \in 1 .. n : ts[i] = t}
  OBVIOUS
<1>7. PICK f : f = [k \in K |-> q[k]]
  OBVIOUS
<1>8. \A k \in K : k \in 1 .. m /\ f[k] = q[k] /\ q[k] \in I
  BY <1>3, <1>5, <1>6, <1>7
<1>9. \A k, l \in K : f[k] = f[l] => k = l
  <2> SUFFICES ASSUME NEW k \in K, NEW l \in K, k < l PROVE f[k] # f[l]
    BY <1>6
  <2>1. k \in 1 .. m /\ l \in 1 .. m /\ f[k] = q[k] /\ f[l] = q[l]
    BY <1>8
  <2>2. q[k] < q[l] /\ q[k] \in 1 .. n /\ q[l] \in 1 .. n
    BY <1>2, <1>3, <2>1
  <2> QED
    BY <2>1, <2>2
<1>10. f \in Injection(K, I)
  BY <1>7, <1>8, <1>9 DEF Injection, IsInjective
<1>11. IsFiniteSet(I)
  <2>1. 1 \in Int /\ n \in Int /\ I \in SUBSET (1 .. n)
    BY <1>6
  <2> QED
    BY <2>1, FS_Interval, FS_Subset
<1>12. IsFiniteSet(K) /\ Cardinality(K) <= Cardinality(I)
  BY <1>10, <1>11, FS_Injection
<1>13. Cardinality(K) \in Nat /\ Cardinality(I) \in Nat
  BY <1>11, <1>12, FS_CardinalityType
<1>14. HowOften(ts, t) = Cardinality(I)
  BY <1>1, <1>6 DEF HowOften
<1>15. HowOften(s, t) = Cardinality(K)
  <2>1. DOMAIN s = 1 .. m
    BY <1>5
  <2> QED
    BY <1>6, <2>1 DEF HowOften
<1> QED
  BY <1>2, <1>4, <1>12, <1>13, <1>14, <1>15

\* A load reads the turns: if it found the review running it now holds each as
\* often as it is stored.
LEMMA LoadTurnsMoves ==
  ASSUME CascadeInv, JobsWrite, StagesOfLoads, NEW p \in Loads, LoadTurns(p)
  PROVE  /\ Moves(p) /\ UNCHANGED <<turns, todo>>
         /\ \A q \in Loads \ {p} : load'[q] = load[q]
         /\ load[p].pc = "turns" /\ load'[p].pc = "messages" /\ load'[p].status = load[p].status
         /\ load[p].status # "Running" => Lightens(p)
         /\ \A t \in TurnRow : Copies(t)' = Copies(t) /\ Held(p, t)' \in 0 .. Held(p, t) + Copies(t)
<1>1. PICK now \in LoadRecord : now = load[p] /\ now.pc = "turns"
  BY DEF CascadeInv, LoadsAreTyped, LoadRecord, LoadTurns
<1>2. load \in [Loads -> LoadRecord] /\ turns \in Seq(TurnRow) /\ UNCHANGED <<turns, todo>>
  BY DEF CascadeInv, LoadsAreTyped, TablesAreTyped, LoadRecord, LoadTurns, tables
<1>3. \A k \in DOMAIN now.read : now.read[k].kind = "session"
  BY <1>1 DEF StagesOfLoads
<1>4. PICK q : q = PlacesOf(turns, review[p])
  OBVIOUS
<1>5. PICK l : l = [now EXCEPT !.pc = "messages", !.queue = q]
  OBVIOUS
<1>6. l.pc = "messages" /\ l.queue = q /\ l.read = now.read /\ l.status = now.status
  BY <1>1, <1>5 DEF LoadRecord
<1>7. load' = [load EXCEPT ![p] = l]
  BY <1>1, <1>2, <1>4, <1>5 DEF LoadTurns, PlacesOf, LoadRecord
<1>8. load'[p] = l /\ \A v \in Loads \ {p} : load'[v] = load[v]
  BY <1>2, <1>7
<1>9. p \in Writers
  BY DEF Writers
<1>10. Moves(p)
  BY <1>2, <1>8, <1>9, OneWriterMoves
<1>11. \A t \in TurnRow : Carries(now, turns, t) = 0
  BY <1>1, CarriesNothing
<1>12. ASSUME NEW t \in TurnRow PROVE Carries(l, turns, t) \in 0 .. Copies(t)
  <2>1. Copies(t) \in Nat /\ Copies(t) = HowOften(turns, t)
    BY HeldType
  <2>2. HowOften(TurnsAt(turns, q), t) \in 0 .. HowOften(turns, t)
    BY <1>2, <1>4, PlacesCount
  <2>3. HowOften(now.read, AsTurn(t)) = 0
    <3>1. PICK read \in Seq(Statement) : read = now.read
      BY DEF LoadRecord, Children, Chains
    <3>2. AsTurn(t).kind = "turn"
      BY AsTurnIsStatement
    <3>3. \A k \in DOMAIN read : read[k] # AsTurn(t)
      BY <1>3, <3>1, <3>2
    <3> QED
      BY <3>1, <3>3, HowOftenType
  <2>4. CASE now.status = "Running"
    <3>1. Carries(l, turns, t) = 0 + HowOften(TurnsAt(turns, q), t)
      BY <1>6, <2>3, <2>4 DEF Carries
    <3> QED
      BY <2>1, <2>2, <3>1
  <2>5. CASE now.status # "Running"
    <3>1. Carries(l, turns, t) = 0
      BY <1>6, <2>5, CarriesNothing
    <3> QED
      BY <2>1, <3>1
  <2> QED
    BY <2>4, <2>5
<1>13. ASSUME NEW t \in TurnRow
       PROVE  Copies(t)' = Copies(t) /\ Held(p, t)' \in 0 .. Held(p, t) + Copies(t)
  <2>1. Copies(t)' = Copies(t)
    BY <1>2 DEF Copies
  <2>2. PICK h \in Nat : h = HowOften(todo[p], AsTurn(t))
    BY <1>9, HeldType
  <2>3. PICK c \in Nat : c = Copies(t)
    BY HeldType
  <2>4. PICK d \in 0 .. c : d = Carries(l, turns, t)
    BY <1>12, <2>3
  <2>5. Held(p, t) = h + 0
    BY <1>1, <1>11, <2>2 DEF Held
  <2>6. Held(p, t)' = h + d
    BY <1>2, <1>8, <2>2, <2>4 DEF Held
  <2>7. h + d \in 0 .. (h + 0) + c
    OBVIOUS
  <2> QED
    BY <2>1, <2>3, <2>5, <2>6, <2>7
<1>14. ASSUME now.status # "Running" PROVE Lightens(p)
  <2>1. \A t \in TurnRow : Carries(load'[p], turns, t) = 0
    BY <1>6, <1>8, <1>14, CarriesNothing
  <2>2. 0 \in 0 .. 0
    OBVIOUS
  <2>3. \A t \in TurnRow : Carries(load'[p], turns, t) \in 0 .. Carries(load[p], turns, t)
    BY <1>1, <1>11, <2>1, <2>2
  <2> QED
    BY <1>2, <1>8, <2>3, ReadingLightens
<1> QED
  BY <1>1, <1>2, <1>6, <1>8, <1>10, <1>13, <1>14

\* A writer that moves gives no load a turn of a running review.
LEMMA NothingToDoubleKeeps ==
  ASSUME CascadeInv, JobsWrite, CascadeInv', JobsWrite', NothingToDouble, JobStoresOnce, NeverAgain,
         UNCHANGED review, NEW w \in Writers, Moves(w), w \in Reviews \/ Doubles(w)
  PROVE  NothingToDouble'
<1> SUFFICES ASSUME NEW p \in Loads, NEW t \in TurnRow, review[p] = t.review, status'[t.review] = "Running"
             PROVE  Held(p, t)' = 0
  BY DEF NothingToDouble
<1>1. t.review \in Reviews /\ p \in Writers
  BY DEF TurnRow, Writers
<1>2. status[t.review] = "Running"
  BY <1>1 DEF NeverAgain
<1>3. Held(p, t) = 0
  BY <1>2 DEF NothingToDouble
<1>4. CASE p # w
  BY <1>1, <1>3, <1>4 DEF Moves
<1>5. CASE p = w
  <2>1. Doubles(w)
    BY <1>5, CascadeAssumption
  <2>2. Copies(t) = 0
    BY <1>2, LightWhileRunning
  <2>3. CountsAreTyped'
    BY CountsType, PTL
  <2>4. Copies(t)' \in Nat /\ Held(w, t)' \in Nat
    BY <2>3 DEF CountsAreTyped
  <2>5. Copies(t)' + Held(w, t)' <= 0 + 0 + 0
    BY <1>3, <1>5, <2>1, <2>2 DEF Doubles
  <2> QED
    BY <1>5, <2>4, <2>5
<1> QED
  BY <1>4, <1>5

\* The subsets of the loads that have read the turns are a number.
LEMMA ReadersType ==
  ASSUME NEW S \in SUBSET Loads
  PROVE  IsFiniteSet(S) /\ Cardinality(SUBSET S) \in Nat /\ 1 <= Cardinality(SUBSET S)
<1>1. IsFiniteSet(Loads)
  BY CascadeAssumption
<1> QED
  BY <1>1, FS_Subset, MoreSubsets

\* A load may double what there is of a turn, once.
LEMMA DoublingKeeps ==
  ASSUME CascadeInv, JobsWrite, CascadeInv', JobsWrite', UNCHANGED review, DoublingBounded, LightTurns',
         NEW w \in Writers, Moves(w),
         \A t \in TurnRow : status'[t.review] # "Running" =>
           /\ HaveRead(t.review) \subseteq HaveRead(t.review)'
           /\ review[w] = t.review =>
                \/ Copies(t)' + Held(w, t)' <= Copies(t) + Held(w, t)
                \/ /\ w \in HaveRead(t.review)' \ HaveRead(t.review)
                   /\ Copies(t)' = Copies(t) /\ Held(w, t)' <= Held(w, t) + Copies(t)
  PROVE  DoublingBounded'
<1> SUFFICES ASSUME NEW t \in TurnRow
             PROVE  Weight(t)' <= Cardinality(SUBSET (HaveRead(t.review)'))
  BY DEF DoublingBounded
<1>1. PICK S \in SUBSET Loads : S = HaveRead(t.review)
  BY DEF HaveRead
<1>2. PICK T \in SUBSET Loads : T = HaveRead(t.review)'
  BY DEF HaveRead
<1>3. PICK m \in Nat : m = Cardinality(SUBSET S)
  BY ReadersType
<1>4. PICK n \in Nat : n = Cardinality(SUBSET T) /\ 1 <= n
  BY ReadersType
<1>5. IsFiniteSet(S) /\ IsFiniteSet(T)
  BY ReadersType
<1>6. Weight(t) \in Nat /\ Weight(t)' \in Nat /\ Weight(t) <= m
  BY <1>1, <1>3, WeightMoves DEF DoublingBounded
<1>7. CASE status'[t.review] = "Running"
  <2>1. Weight(t)' <= 1
    BY <1>7 DEF LightTurns
  <2> QED
    BY <1>2, <1>4, <1>6, <2>1
<1>8. CASE status'[t.review] # "Running"
  <2>1. S \in SUBSET T
    BY <1>1, <1>2, <1>8
  <2>2. m <= n
    BY <1>3, <1>4, <1>5, <2>1, MoreSubsets
  <2>3. PICK a, b, c, d : a = Copies(t) /\ b = Held(w, t) /\ c = Copies(t)' /\ d = Held(w, t)'
    OBVIOUS
  <2>4. a \in Nat /\ b \in Nat /\ c \in Nat /\ d \in Nat
    <3>1. CountsAreTyped
      BY CountsType
    <3>2. CountsAreTyped'
      BY CountsType, PTL
    <3> QED
      BY <2>3, <3>1, <3>2 DEF CountsAreTyped
  <2>5. CASE review[w] # t.review
    <3>1. Weight(t)' = Weight(t)
      BY <2>5, WeightMoves
    <3> QED
      BY <1>2, <1>4, <1>6, <2>2, <3>1
  <2>6. CASE review[w] = t.review /\ c + d <= a + b
    <3>1. Weight(t)' + a + b = Weight(t) + c + d
      BY <2>3, <2>6, WeightMoves
    <3>2. Weight(t)' <= Weight(t)
      BY <1>6, <2>4, <2>6, <3>1
    <3> QED
      BY <1>2, <1>4, <1>6, <2>2, <3>2
  <2>7. CASE review[w] = t.review /\ w \in T \ S /\ c = a /\ d <= b + a
    <3>1. Weight(t)' + a + b = Weight(t) + c + d
      BY <2>3, <2>7, WeightMoves
    <3>2. a <= Weight(t)
      <4>1. PICK V : V = WritersOf(t.review)
        OBVIOUS
      <4>2. PICK f : f = [v \in V |-> Held(v, t)]
        OBVIOUS
      <4>3. IsFiniteSet(V) /\ \A v \in V : f[v] \in Nat
        BY <4>1, <4>2, HeldType DEF WritersOf
      <4>4. Total(f, V) \in Nat
        BY <4>3, TotalType
      <4>5. Weight(t) = a + Total(f, V)
        BY <2>3, <4>1, <4>2 DEF Weight
      <4> QED
        BY <2>4, <4>4, <4>5
    <3>3. Weight(t)' <= Weight(t) + Weight(t)
      BY <1>6, <2>4, <2>7, <3>1, <3>2
    <3>4. S \cup {w} \in SUBSET T
      BY <2>1, <2>7
    <3>5. Cardinality(SUBSET (S \cup {w})) = m + m
      BY <1>3, <1>5, <2>7, TwiceAsManySubsets
    <3>6. Cardinality(SUBSET (S \cup {w})) <= n
      BY <1>4, <1>5, <3>4, MoreSubsets
    <3> QED
      BY <1>2, <1>4, <1>6, <3>3, <3>5, <3>6
  <2> QED
    BY <1>1, <1>2, <1>8, <2>3, <2>5, <2>6, <2>7
<1> QED
  BY <1>7, <1>8

\* Every statement is once in a transcript.
LEMMA TranscriptHasOne ==
  ASSUME NEW x
  PROVE  HowOften(Transcript, x) <= 1
<1>1. ASSUME NEW a \in Agents, NEW i \in 1 .. TurnCount
      PROVE  /\ TurnOf(a, i) \in Seq(Statement) /\ Distinct(TurnOf(a, i))
             /\ \A y \in ToSet(TurnOf(a, i)) : y.kind # "session" /\ y.agent = a /\ y.index = i
  <2>1. PICK t \in Statement : t = [kind |-> "turn", agent |-> a, index |-> i]
    <3>1. PICK u : u = [kind |-> "turn", agent |-> a, index |-> i]
      OBVIOUS
    <3>2. u \in Statement
      BY <3>1 DEF Statement
    <3> QED
      BY <3>1, <3>2
  <2>2. PICK m \in Statement : m = [kind |-> "message", agent |-> a, index |-> i]
    <3>1. PICK u : u = [kind |-> "message", agent |-> a, index |-> i]
      OBVIOUS
    <3>2. u \in Statement
      BY <3>1 DEF Statement
    <3> QED
      BY <3>1, <3>2
  <2>3. PICK s : s = <<t, m>>
    OBVIOUS
  <2>4. s \in Seq(Statement) /\ DOMAIN s = {1, 2} /\ s[1] = t /\ s[2] = m
    BY <2>3
  <2>5. t # m /\ t.kind # "session" /\ m.kind # "session" /\ t.agent = a /\ m.agent = a
        /\ t.index = i /\ m.index = i
    BY <2>1, <2>2
  <2>6. Distinct(s)
    BY <2>4, <2>5 DEF Distinct
  <2>7. \A y \in ToSet(s) : y = t \/ y = m
    BY <2>4 DEF ToSet
  <2>8. s = TurnOf(a, i)
    BY <2>1, <2>2, <2>3 DEF TurnOf
  <2> QED
    BY <2>4, <2>5, <2>6, <2>7, <2>8
<1>2. ASSUME NEW a \in Agents
      PROVE  /\ SessionOf(a) \in Seq(Statement) /\ Distinct(SessionOf(a))
             /\ \A y \in ToSet(SessionOf(a)) : y.agent = a
  <2>1. PICK q : q = [i \in 1 .. TurnCount |-> TurnOf(a, i)]
    OBVIOUS
  <2>2. q \in Seq(Seq(Statement)) /\ DOMAIN q = 1 .. TurnCount /\ \A i \in 1 .. TurnCount : q[i] = TurnOf(a, i)
    BY <1>1, <2>1, CascadeAssumption
  <2>3. \A i \in DOMAIN q : Distinct(q[i])
    BY <1>1, <2>2
  <2>4. ASSUME NEW i \in 1 .. TurnCount, NEW j \in 1 .. TurnCount, i # j
        PROVE  ToSet(TurnOf(a, i)) \cap ToSet(TurnOf(a, j)) = {}
    BY <1>1, <2>4
  <2>5. \A i, j \in DOMAIN q : i # j => ToSet(q[i]) \cap ToSet(q[j]) = {}
    BY <2>2, <2>4
  <2>6. PICK f \in Seq(Statement) : f = FlattenSeq(q)
    BY <2>2, FlattenType
  <2>7. Distinct(f) /\ \A y \in ToSet(f) : \E i \in DOMAIN q : y \in ToSet(q[i])
    BY <2>2, <2>3, <2>5, <2>6, FlattenDistinct
  <2>8. \A y \in ToSet(f) : y.kind # "session" /\ y.agent = a
    BY <1>1, <2>2, <2>7
  <2>9. PICK h \in Statement : h = [kind |-> "session", agent |-> a]
    <3>1. PICK u : u = [kind |-> "session", agent |-> a]
      OBVIOUS
    <3>2. u \in Statement
      BY <3>1 DEF Statement
    <3> QED
      BY <3>1, <3>2
  <2>10. PICK one : one = <<h>>
    OBVIOUS
  <2>11. one \in Seq(Statement) /\ DOMAIN one = {1} /\ one[1] = h
    BY <2>10
  <2>12. Distinct(one) /\ ToSet(one) = {h}
    BY <2>11 DEF Distinct, ToSet
  <2>13. ToSet(one) \cap ToSet(f) = {}
    BY <2>8, <2>9, <2>12
  <2>14. one \o f \in Seq(Statement) /\ Distinct(one \o f) /\ ToSet(one \o f) = ToSet(one) \cup ToSet(f)
    BY <2>7, <2>11, <2>12, <2>13, JoinedMembers
  <2>15. SessionOf(a) = one \o f
    BY <2>1, <2>6, <2>9, <2>10 DEF SessionOf
  <2> QED
    BY <2>8, <2>9, <2>12, <2>14, <2>15
<1>3. PICK q : q = [a \in Agents |-> SessionOf(a)]
  OBVIOUS
<1>4. q \in Seq(Seq(Statement)) /\ DOMAIN q = Agents /\ \A a \in Agents : q[a] = SessionOf(a)
  <2>1. Agents = 1 .. AgentCount /\ AgentCount \in Nat
    BY CascadeAssumption DEF Agents
  <2> QED
    BY <1>2, <1>3, <2>1
<1>5. \A a \in DOMAIN q : Distinct(q[a])
  BY <1>2, <1>4
<1>6. ASSUME NEW a \in Agents, NEW b \in Agents, a # b
      PROVE  ToSet(SessionOf(a)) \cap ToSet(SessionOf(b)) = {}
  BY <1>2, <1>6
<1>7. \A a, b \in DOMAIN q : a # b => ToSet(q[a]) \cap ToSet(q[b]) = {}
  BY <1>4, <1>6
<1>8. PICK f \in Seq(Statement) : f = FlattenSeq(q)
  BY <1>4, FlattenType
<1>9. Distinct(f)
  BY <1>4, <1>5, <1>7, <1>8, FlattenDistinct
<1>10. HowOften(f, x) <= 1
  BY <1>9, HowOftenDistinct
<1> QED
  BY <1>3, <1>8, <1>10 DEF Transcript

\* The stages of the load of one page.
LEMMA StagesKeep ==
  ASSUME StagesOfLoads, NEW p \in Loads, \A q \in Loads \ {p} : load'[q] = load[q],
         load'[p].pc # "messages" => load'[p].queue = <<>>,
         load'[p].pc \in {"idle", "sessions"} => load'[p].read = <<>>,
         load'[p].pc = "turns" => \A k \in DOMAIN load'[p].read : load'[p].read[k].kind = "session"
  PROVE  StagesOfLoads'
<1> SUFFICES ASSUME NEW q \in Loads
             PROVE  /\ load'[q].pc # "messages" => load'[q].queue = <<>>
                    /\ load'[q].pc \in {"idle", "sessions"} => load'[q].read = <<>>
                    /\ load'[q].pc = "turns" =>
                         \A k \in DOMAIN load'[q].read : load'[q].read[k].kind = "session"
  BY DEF StagesOfLoads
<1>1. CASE q = p
  BY <1>1
<1>2. CASE q # p
  BY <1>2 DEF StagesOfLoads
<1> QED
  BY <1>1, <1>2

\* A load that has not begun has neither read nor queued anything.
LEMMA NoLoadStages ==
  /\ NoLoad.pc = "idle" /\ NoLoad.queue = <<>> /\ NoLoad.read = <<>>
  BY DEF NoLoad

\* A turn of another review, or of one whose job the step leaves alone.
LEMMA JobStoresOnceStays ==
  ASSUME CascadeInv, JobsWrite, JobStoresOnce, NEW t \in TurnRow,
         Copies(t)' = Copies(t), todo'[t.review] \in {todo[t.review], <<>>},
         status'[t.review] = status[t.review], job[t.review] = "done" => job'[t.review] = "done"
  PROVE  \/ Copies(t)' + HowOften(todo'[t.review], AsTurn(t)) <= 1
         \/ status'[t.review] = "Failed" /\ job'[t.review] = "done"
<1>1. t.review \in Writers
  BY DEF TurnRow, Writers
<1>2. PICK n \in Nat : n = HowOften(todo[t.review], AsTurn(t))
  BY <1>1, HeldType
<1>3. PICK c \in Nat : c = Copies(t)
  BY HeldType
<1>4. HowOften(<<>>, AsTurn(t)) = 0
  <2>1. <<>> \in Seq(Statement) /\ DOMAIN <<>> = {}
    OBVIOUS
  <2> QED
    BY <2>1, HowOftenType
<1>5. c + n <= 1 \/ (status[t.review] = "Failed" /\ job[t.review] = "done")
  BY <1>2, <1>3 DEF JobStoresOnce
<1>6. HowOften(todo'[t.review], AsTurn(t)) \in {n, 0}
  BY <1>2, <1>4
<1> QED
  BY <1>3, <1>5, <1>6

\* A statement of the job takes from what the job has left, one of a load marks the review first.
LEMMA ExecuteStoresOnce ==
  ASSUME CascadeInv, JobsWrite, LoadsMark, JobStoresOnce, NEW w \in Writers, Execute(w)
  PROVE  JobStoresOnce'
<1>1. Moves(w) /\ Lightens(w)
  BY ExecuteMoves
<1>2. PICK s \in Statement :
        /\ todo[w] # <<>> /\ s = Head(todo[w]) /\ todo'[w] = Tail(todo[w])
        /\ \A v \in Writers : v # w => todo'[v] = todo[v]
        /\ UNCHANGED <<job, review, load>>
        /\ s.kind = "review" => \A r \in Reviews : status'[r] = IF r = review[w] THEN s.status ELSE status[r]
        /\ s.kind # "review" => UNCHANGED status
  <2>1. \A s \in Statement : s.kind \in {"review", "session", "turn", "message"}
    BY StatementKinds
  <2>2. PICK s \in Statement :
          /\ todo[w] # <<>> /\ s = Head(todo[w]) /\ todo'[w] = Tail(todo[w])
          /\ \A v \in Writers : v # w => todo'[v] = todo[v]
          /\ UNCHANGED <<job, review, load>>
          /\ s.kind = "review" => \A r \in Reviews : status'[r] = IF r = review[w] THEN s.status ELSE status[r]
          /\ s.kind = "session" => UNCHANGED status
          /\ s.kind = "turn" => UNCHANGED status
          /\ s.kind = "message" => UNCHANGED status
    BY StatementWrites
  <2> QED
    BY <2>1, <2>2
<1> SUFFICES ASSUME NEW t \in TurnRow
             PROVE  \/ Copies(t)' + HowOften(todo'[t.review], AsTurn(t)) <= 1
                    \/ status'[t.review] = "Failed" /\ job'[t.review] = "done"
  BY DEF JobStoresOnce
<1>3. PICK r \in Reviews : r = t.review
  BY DEF TurnRow
<1>4. r \in Writers /\ r \notin Loads /\ review[r] = r
  BY CascadeAssumption DEF Writers, JobsWrite
<1>5. CASE w = r
  <2>1. job[r] # "done"
    BY <1>2, <1>5 DEF JobsWrite
  <2>2. Copies(t) + HowOften(todo[r], AsTurn(t)) <= 1
    BY <1>3, <2>1 DEF JobStoresOnce
  <2>3. PICK m \in Nat, n \in Nat : m = Copies(t) /\ n = HowOften(todo[r], AsTurn(t))
    BY <1>4, HeldType
  <2>4. PICK k \in Nat : k = HowOften(todo'[r], AsTurn(t))
    <3>1. todo[r] \in Saves /\ todo[r] # <<>>
      BY <1>2, <1>4, <1>5 DEF CascadeInv, WritersAreTyped
    <3>2. Tail(todo[r]) \in Saves
      BY <3>1, RestOfSave
    <3>3. todo'[r] \in Seq(Statement)
      BY <1>2, <1>5, <3>2 DEF Saves
    <3> QED
      BY <3>3, HowOftenType
  <2>5. Held(r, t) = n + 0 /\ Held(r, t)' = k + 0
    BY <1>4, <2>3, <2>4 DEF Held
  <2>6. Copies(t)' + Held(r, t)' <= Copies(t) + Held(r, t)
    BY <1>1, <1>3, <1>4, <1>5 DEF Lightens
  <2>7. Copies(t)' + k <= m + n
    BY <2>3, <2>5, <2>6
  <2>8. m + n <= 1
    BY <2>2, <2>3
  <2>9. Copies(t)' \in Nat
    <3>1. turns' \in Seq(TurnRow)
      BY ExecuteStep DEF CascadeInv, TablesAreTyped
    <3>2. HowOften(turns', t) \in Nat
      BY <3>1, HowOftenType
    <3> QED
      BY <3>2 DEF Copies, HowOften
  <2> QED
    BY <1>3, <2>4, <2>7, <2>8, <2>9
<1>6. CASE w # r /\ review[w] = r
  <2>1. /\ job[r] = "done" /\ IF s.kind = "review" THEN s.status = "Failed" ELSE status[r] = "Failed"
    BY <1>2, <1>6, WriterIsALoad
  <2>2. status'[r] = "Failed" /\ job'[r] = "done"
    BY <1>2, <1>6, <2>1
  <2> QED
    BY <1>3, <2>2
<1>7. CASE review[w] # r
  <2>1. Copies(t)' = Copies(t)
    BY <1>1, <1>3, <1>7 DEF Moves
  <2>2. w # r
    BY <1>4, <1>7
  <2>3. todo'[r] = todo[r] /\ status'[r] = status[r] /\ job'[r] = job[r]
    BY <1>2, <1>4, <1>7, <2>2
  <2> QED
    BY <1>3, <2>1, <2>3, JobStoresOnceStays
<1> QED
  BY <1>5, <1>6, <1>7

\* What a step has to show of the writer that moves.
LEMMA DoubledStep ==
  ASSUME CascadeInv, JobsWrite, CascadeInv', JobsWrite', DoubledInv, NeverAgain, UNCHANGED review,
         NEW w \in Writers, Moves(w), w \in Reviews \/ Doubles(w), StagesOfLoads', JobStoresOnce',
         \A t \in TurnRow : status'[t.review] # "Running" =>
           /\ HaveRead(t.review) \subseteq HaveRead(t.review)'
           /\ review[w] = t.review =>
                \/ Copies(t)' + Held(w, t)' <= Copies(t) + Held(w, t)
                \/ /\ w \in HaveRead(t.review)' \ HaveRead(t.review)
                   /\ Copies(t)' = Copies(t) /\ Held(w, t)' <= Held(w, t) + Copies(t)
  PROVE  DoubledInv'
<1>1. NothingToDouble'
  BY NothingToDoubleKeeps DEF DoubledInv
<1>2. LightTurns'
  BY <1>1, TurnsAreLight, PTL
<1>3. DoublingBounded'
  BY <1>2, DoublingKeeps DEF DoubledInv
<1> QED
  BY <1>1, <1>3 DEF DoubledInv

\* A writer that holds no more than before does not double anything.
LEMMA LightensDoubles ==
  ASSUME CascadeInv, JobsWrite, CascadeInv', JobsWrite', NEW w \in Writers, Lightens(w)
  PROVE  Doubles(w)
<1> SUFFICES ASSUME NEW t \in TurnRow, t.review = review[w]
             PROVE  Copies(t)' + Held(w, t)' <= Copies(t) + Held(w, t) + Copies(t)
  BY DEF Doubles
<1>1. CountsAreTyped
  BY CountsType
<1>2. CountsAreTyped'
  BY CountsType, PTL
<1>3. /\ Copies(t) \in Nat /\ Copies(t)' \in Nat /\ Held(w, t) \in Nat /\ Held(w, t)' \in Nat
  BY <1>1, <1>2 DEF CountsAreTyped
<1>4. Copies(t)' + Held(w, t)' <= Copies(t) + Held(w, t)
  BY DEF Lightens
<1> QED
  BY <1>3, <1>4

\* The jobs and the statements leave the loads as they are.
LEMMA TasksDouble ==
  ASSUME CascadeInv, JobsWrite, CascadeInv', JobsWrite', DoubledInv, NeverAgain,
         UNCHANGED <<review, load>>, NEW w \in Writers, Moves(w), JobStoresOnce',
         Lightens(w) \/ (w \in Reviews /\ status'[w] = "Running")
  PROVE  DoubledInv'
<1>1. StagesOfLoads'
  BY DEF DoubledInv, StagesOfLoads
<1>2. w \in Reviews \/ Doubles(w)
  BY LightensDoubles
<1>3. ASSUME NEW t \in TurnRow, status'[t.review] # "Running"
      PROVE  /\ HaveRead(t.review) \subseteq HaveRead(t.review)'
             /\ review[w] = t.review => Copies(t)' + Held(w, t)' <= Copies(t) + Held(w, t)
  <2>1. HaveRead(t.review)' = HaveRead(t.review)
    BY DEF HaveRead
  <2>2. review[w] = t.review => Lightens(w)
    BY <1>3 DEF JobsWrite
  <2> QED
    BY <2>1, <2>2 DEF Lightens
<1> QED
  BY <1>1, <1>2, <1>3, DoubledStep

\* A load that holds no more than before.
LEMMA LoadsDouble ==
  ASSUME CascadeInv, JobsWrite, CascadeInv', JobsWrite', DoubledInv, NeverAgain,
         UNCHANGED <<status, job, turns, review>>, NEW p \in Loads, Moves(p), Lightens(p),
         \A v \in Writers \ {p} : todo'[v] = todo[v],
         \A q \in Loads \ {p} : load'[q] = load[q], StagesOfLoads',
         \/ load'[p].pc \notin {"sessions", "turns"}
         \/ load[p].pc \in {"sessions", "turns"} /\ load'[p].status = load[p].status
         \/ load'[p].status = status[review[p]]
  PROVE  DoubledInv'
<1>1. p \in Writers /\ p \notin Reviews
  BY CascadeAssumption DEF Writers
<1>2. Doubles(p)
  BY <1>1, LightensDoubles
<1>3. JobStoresOnce'
  <2> SUFFICES ASSUME NEW t \in TurnRow
               PROVE  \/ Copies(t)' + HowOften(todo'[t.review], AsTurn(t)) <= 1
                      \/ status'[t.review] = "Failed" /\ job'[t.review] = "done"
    BY DEF JobStoresOnce
  <2>1. Copies(t)' = Copies(t)
    BY DEF Copies
  <2>2. t.review \in Writers \ {p}
    BY <1>1 DEF TurnRow, Writers
  <2>3. todo'[t.review] = todo[t.review]
    BY <2>2
  <2> QED
    BY <2>1, <2>3, JobStoresOnceStays DEF DoubledInv
<1>4. ASSUME NEW t \in TurnRow, status'[t.review] # "Running"
      PROVE  HaveRead(t.review) \subseteq HaveRead(t.review)'
  <2> SUFFICES ASSUME NEW q \in HaveRead(t.review) PROVE q \in HaveRead(t.review)'
    OBVIOUS
  <2>1. q \in Loads /\ review[q] = t.review
        /\ ~(load[q].status = "Running" /\ load[q].pc \in {"sessions", "turns"})
    BY DEF HaveRead
  <2>2. CASE q # p
    BY <2>1, <2>2 DEF HaveRead
  <2>3. CASE q = p
    <3>1. ~(load'[p].status = "Running" /\ load'[p].pc \in {"sessions", "turns"})
      BY <1>4, <2>1, <2>3
    <3> QED
      BY <2>1, <2>3, <3>1 DEF HaveRead
  <2> QED
    BY <2>2, <2>3
<1>5. \A t \in TurnRow : review[p] = t.review => Copies(t)' + Held(p, t)' <= Copies(t) + Held(p, t)
  BY DEF Lightens
<1> QED
  BY <1>1, <1>2, <1>3, <1>4, <1>5, DoubledStep

\* The load of a review that looked running reads the turns.
LEMMA TornLoadDoubles ==
  ASSUME CascadeInv, JobsWrite, CascadeInv', JobsWrite', DoubledInv, NeverAgain,
         UNCHANGED <<status, job, turns, review, todo>>, NEW p \in Loads, Moves(p),
         \A q \in Loads \ {p} : load'[q] = load[q], StagesOfLoads',
         load[p].pc = "turns", load[p].status = "Running", load'[p].pc = "messages",
         \A t \in TurnRow : Copies(t)' = Copies(t) /\ Held(p, t)' \in 0 .. Held(p, t) + Copies(t)
  PROVE  DoubledInv'
<1>1. p \in Writers /\ CountsAreTyped
  BY CountsType DEF Writers
<1>2. Doubles(p)
  <2> SUFFICES ASSUME NEW t \in TurnRow
               PROVE  Copies(t)' + Held(p, t)' <= Copies(t) + Held(p, t) + Copies(t)
    BY DEF Doubles
  <2>1. PICK c \in Nat, h \in Nat : c = Copies(t) /\ h = Held(p, t)
    BY <1>1 DEF CountsAreTyped
  <2>2. Copies(t)' = c /\ Held(p, t)' \in 0 .. h + c
    BY <2>1
  <2> QED
    BY <2>1, <2>2
<1>3. JobStoresOnce'
  BY DEF DoubledInv, JobStoresOnce
<1>4. ASSUME NEW t \in TurnRow
      PROVE  /\ HaveRead(t.review) \subseteq HaveRead(t.review)'
             /\ review[p] = t.review =>
                  /\ p \in HaveRead(t.review)' \ HaveRead(t.review)
                  /\ Copies(t)' = Copies(t) /\ Held(p, t)' <= Held(p, t) + Copies(t)
  <2>1. HaveRead(t.review) \subseteq HaveRead(t.review)'
    BY DEF HaveRead
  <2>2. review[p] = t.review => p \in HaveRead(t.review)' \ HaveRead(t.review)
    BY DEF HaveRead
  <2>3. PICK c \in Nat, h \in Nat : c = Copies(t) /\ h = Held(p, t)
    BY <1>1 DEF CountsAreTyped
  <2>4. Copies(t)' = c /\ Held(p, t)' \in 0 .. h + c
    BY <2>3
  <2> QED
    BY <2>1, <2>2, <2>3, <2>4
<1> QED
  BY <1>1, <1>2, <1>3, <1>4, DoubledStep

\* A job that begins a save has stored nothing yet.
LEMMA SavesOnce ==
  ASSUME CascadeInv, JobsWrite, CascadeInv', JobsWrite', DoubledInv, NeverAgain,
         NEW r \in Reviews, Save(r) \/ Mark(r)
  PROVE  DoubledInv'
<1>1. r \in Writers /\ r \notin Loads /\ review[r] = r
  BY CascadeAssumption DEF Writers, JobsWrite
<1>2. PICK c \in {Transcript, <<>>}, s \in {"Completed", "Failed"} :
        todo' = [todo EXCEPT ![r] = SaveReview(s, c)]
  BY DEF Save, Mark
<1>3. /\ UNCHANGED <<status, turns, review, load>> /\ job' = [job EXCEPT ![r] = "saving"]
      /\ job[r] \in {"working", "marking"} /\ todo \in [Writers -> Saves]
      /\ job \in [Reviews -> {"working", "saving", "marking", "done"}]
  BY DEF Save, Mark, tables, CascadeInv, WritersAreTyped
<1>4. status[r] = "Running" /\ status'[r] = "Running" /\ job[r] # "done"
  BY <1>3 DEF JobsWrite
<1>5. todo'[r] = SaveReview(s, c) /\ \A v \in Writers \ {r} : todo'[v] = todo[v]
  BY <1>1, <1>2, <1>3
<1>6. Moves(r)
  BY <1>1, <1>3, <1>5, OneWriterMoves
<1>7. JobStoresOnce'
  <2> SUFFICES ASSUME NEW t \in TurnRow
               PROVE  \/ Copies(t)' + HowOften(todo'[t.review], AsTurn(t)) <= 1
                      \/ status'[t.review] = "Failed" /\ job'[t.review] = "done"
    BY DEF JobStoresOnce
  <2>1. Copies(t)' = Copies(t)
    BY <1>3 DEF Copies
  <2>2. CASE t.review = r
    <3>1. Copies(t) = 0
      BY <1>4, <2>2, LightWhileRunning DEF DoubledInv
    <3>2. PICK x : x = AsTurn(t) /\ x.kind = "turn"
      BY AsTurnIsStatement
    <3>3. c \in Seq(Statement) /\ HowOften(c, x) \in Nat /\ HowOften(c, x) <= 1
      <4>1. CASE c = Transcript
        <5>1. Transcript \in Seq(Statement)
          BY TranscriptIsChildren DEF Children, Chains
        <5> QED
          BY <4>1, <5>1, TranscriptHasOne, HowOftenType
      <4>2. CASE c = <<>>
        <5>1. <<>> \in Seq(Statement) /\ DOMAIN <<>> = {}
          OBVIOUS
        <5>2. HowOften(<<>>, x) = 0
          BY <5>1, HowOftenType
        <5> QED
          BY <4>2, <5>1, <5>2
      <4> QED
        BY <4>1, <4>2
    <3>4. HowOften(todo'[r], x) = HowOften(c, x)
      BY <1>5, <3>2, <3>3, SaveCounts
    <3> QED
      BY <2>1, <2>2, <3>1, <3>2, <3>3, <3>4
  <2>3. CASE t.review # r
    <3>1. t.review \in Reviews /\ t.review \in Writers \ {r}
      BY <2>3 DEF TurnRow, Writers
    <3>2. todo'[t.review] = todo[t.review] /\ job'[t.review] = job[t.review]
      BY <1>3, <1>5, <2>3, <3>1
    <3> QED
      BY <1>3, <2>1, <3>2, JobStoresOnceStays DEF DoubledInv
  <2> QED
    BY <2>2, <2>3
<1> QED
  BY <1>1, <1>3, <1>4, <1>6, <1>7, TasksDouble

\* Every step keeps what is doubled within its bound.
LEMMA DoubledKeeps ==
  ASSUME CascadeInv, LoadInv, CascadeInv', LoadInv', DoubledInv, [CascadeNext]_cascadeVars
  PROVE  DoubledInv'
<1>1. /\ JobsWrite /\ JobsWrite' /\ LoadsMark /\ LoadsSee /\ StagesOfLoads /\ JobStoresOnce
  BY DEF LoadInv, DoubledInv
<1>2. NeverAgain
  BY StatusEnds
<1>3. ASSUME NEW w \in Writers, Execute(w) PROVE DoubledInv'
  <2>1. Moves(w) /\ Lightens(w)
    BY <1>1, <1>3, ExecuteMoves
  <2>2. JobStoresOnce'
    BY <1>1, <1>3, ExecuteStoresOnce
  <2>3. UNCHANGED <<review, load>>
    BY <1>3 DEF Execute
  <2> QED
    BY <1>1, <1>2, <2>1, <2>2, <2>3, TasksDouble
<1>4. ASSUME NEW w \in Writers, StatementFails(w) PROVE DoubledInv'
  <2>1. Moves(w) /\ Lightens(w)
    BY <1>1, <1>4, FailureLightens
  <2>2. /\ UNCHANGED <<status, turns, review, load>>
        /\ todo' = [todo EXCEPT ![w] = <<>>] /\ todo \in [Writers -> Saves]
        /\ job' = IF w \in Reviews /\ job[w] = "saving" /\ status[w] = "Running"
                    THEN [job EXCEPT ![w] = "marking"] ELSE job
        /\ job \in [Reviews -> {"working", "saving", "marking", "done"}]
    BY <1>4 DEF StatementFails, tables, CascadeInv, WritersAreTyped
  <2>3. JobStoresOnce'
    <3> SUFFICES ASSUME NEW t \in TurnRow
                 PROVE  \/ Copies(t)' + HowOften(todo'[t.review], AsTurn(t)) <= 1
                        \/ status'[t.review] = "Failed" /\ job'[t.review] = "done"
      BY DEF JobStoresOnce
    <3>1. Copies(t)' = Copies(t)
      BY <2>2 DEF Copies
    <3>2. t.review \in Reviews /\ t.review \in Writers
      BY DEF TurnRow, Writers
    <3>3. todo'[t.review] \in {todo[t.review], <<>>}
      BY <2>2, <3>2
    <3>4. job[t.review] = "done" => job'[t.review] = "done"
      BY <2>2, <3>2
    <3> QED
      BY <1>1, <2>2, <3>1, <3>3, <3>4, JobStoresOnceStays
  <2> QED
    BY <1>1, <1>2, <2>1, <2>2, <2>3, TasksDouble
<1>5. ASSUME NEW r \in Reviews, Save(r) \/ Mark(r) PROVE DoubledInv'
  BY <1>1, <1>2, <1>5, SavesOnce
<1>6. ASSUME NEW r \in Reviews, Unregister(r) PROVE DoubledInv'
  <2>1. /\ UNCHANGED <<status, turns, review, load, todo>> /\ job' = [job EXCEPT ![r] = "done"]
        /\ job \in [Reviews -> {"working", "saving", "marking", "done"}]
    BY <1>6 DEF Unregister, tables, CascadeInv, WritersAreTyped
  <2>2. r \in Writers
    BY DEF Writers
  <2>3. Moves(r)
    BY <2>1, <2>2, OneWriterMoves
  <2>4. JobStoresOnce'
    <3> SUFFICES ASSUME NEW t \in TurnRow
                 PROVE  \/ Copies(t)' + HowOften(todo'[t.review], AsTurn(t)) <= 1
                        \/ status'[t.review] = "Failed" /\ job'[t.review] = "done"
      BY DEF JobStoresOnce
    <3>1. Copies(t)' = Copies(t) /\ todo'[t.review] = todo[t.review]
      BY <2>1 DEF Copies
    <3>2. t.review \in Reviews
      BY DEF TurnRow
    <3>3. job[t.review] = "done" => job'[t.review] = "done"
      BY <2>1, <3>2
    <3> QED
      BY <1>1, <2>1, <3>1, <3>3, JobStoresOnceStays
  <2>5. Lightens(r)
    <3> SUFFICES ASSUME NEW t \in TurnRow PROVE Copies(t)' + Held(r, t)' <= Copies(t) + Held(r, t)
      BY DEF Lightens
    <3>1. Copies(t) \in Nat /\ Held(r, t) \in Nat
      BY <1>1, <2>2, HeldType
    <3>2. Copies(t)' = Copies(t) /\ Held(r, t)' = Held(r, t)
      BY <2>1 DEF Copies, Held
    <3> QED
      BY <3>1, <3>2
  <2> QED
    BY <1>1, <1>2, <2>1, <2>2, <2>3, <2>4, <2>5, TasksDouble
<1>7. ASSUME NEW p \in Loads,
             \/ LoadRow(p) \/ LoadSessions(p) \/ LoadTurns(p) \/ LoadMessages(p)
             \/ LoadEnds(p) \/ Reconcile(p) \/ Answer(p)
      PROVE  DoubledInv'
  <2>1. UNCHANGED <<status, job, turns, review>>
    BY <1>7 DEF LoadRow, LoadSessions, LoadTurns, LoadMessages, LoadEnds, Reconcile, Answer, tables
  <2>2. CASE LoadRow(p)
    <3>1. /\ Moves(p) /\ Lightens(p) /\ UNCHANGED todo /\ \A q \in Loads \ {p} : load'[q] = load[q]
          /\ load'[p].pc = "sessions" /\ load'[p].status = status[review[p]]
          /\ load'[p].queue = <<>> /\ load'[p].read = <<>>
      BY <1>1, <2>2, LoadRowMoves
    <3>2. StagesOfLoads'
      BY <1>1, <3>1, StagesKeep
    <3> QED
      BY <1>1, <1>2, <2>1, <3>1, <3>2, LoadsDouble
  <2>3. CASE LoadSessions(p)
    <3>1. /\ Moves(p) /\ Lightens(p) /\ UNCHANGED todo /\ \A q \in Loads \ {p} : load'[q] = load[q]
          /\ load'[p].pc \in {"turns", "check"} /\ load'[p].queue = <<>>
          /\ load[p].pc = "sessions" /\ load'[p].status = load[p].status
          /\ load'[p].pc = "turns" => \A k \in DOMAIN load'[p].read : load'[p].read[k].kind = "session"
      BY <1>1, <2>3, LoadSessionsMoves
    <3>2. StagesOfLoads'
      BY <1>1, <3>1, StagesKeep
    <3> QED
      BY <1>1, <1>2, <2>1, <3>1, <3>2, LoadsDouble
  <2>4. CASE LoadTurns(p)
    <3>1. /\ Moves(p) /\ UNCHANGED todo /\ \A q \in Loads \ {p} : load'[q] = load[q]
          /\ load[p].pc = "turns" /\ load'[p].pc = "messages" /\ load'[p].status = load[p].status
          /\ load[p].status # "Running" => Lightens(p)
          /\ \A t \in TurnRow : Copies(t)' = Copies(t) /\ Held(p, t)' \in 0 .. Held(p, t) + Copies(t)
      BY <1>1, <2>4, LoadTurnsMoves
    <3>2. StagesOfLoads'
      BY <1>1, <3>1, StagesKeep
    <3>3. CASE load[p].status = "Running"
      BY <1>1, <1>2, <2>1, <3>1, <3>2, <3>3, TornLoadDoubles
    <3>4. CASE load[p].status # "Running"
      BY <1>1, <1>2, <2>1, <3>1, <3>2, <3>4, LoadsDouble
    <3> QED
      BY <3>3, <3>4
  <2>5. CASE LoadMessages(p)
    <3>1. /\ Moves(p) /\ Lightens(p) /\ UNCHANGED todo /\ \A q \in Loads \ {p} : load'[q] = load[q]
          /\ load'[p].pc = "messages"
      BY <1>1, <2>5, LoadMessagesMoves
    <3>2. StagesOfLoads'
      BY <1>1, <3>1, StagesKeep
    <3> QED
      BY <1>1, <1>2, <2>1, <3>1, <3>2, LoadsDouble
  <2>6. CASE LoadEnds(p)
    <3>1. /\ Moves(p) /\ Lightens(p) /\ UNCHANGED todo /\ \A q \in Loads \ {p} : load'[q] = load[q]
          /\ load'[p].pc = "check" /\ load'[p].queue = <<>>
      BY <1>1, <2>6, LoadEndsMoves
    <3>2. StagesOfLoads'
      BY <1>1, <3>1, StagesKeep
    <3> QED
      BY <1>1, <1>2, <2>1, <3>1, <3>2, LoadsDouble
  <2>7. CASE Reconcile(p)
    <3>1. /\ Moves(p) /\ Lightens(p) /\ \A v \in Writers \ {p} : todo'[v] = todo[v]
          /\ \A q \in Loads \ {p} : load'[q] = load[q] /\ load[p].pc = "check"
          /\ \/ load'[p] = NoLoad
             \/ load'[p].pc = "save" /\ load'[p].queue = load[p].queue
      BY <1>1, <2>7, ReconcileMoves
    <3>2. load[p].pc = "check" /\ load[p].queue = <<>>
      BY <1>1, <2>7 DEF Reconcile, StagesOfLoads
    <3>3. StagesOfLoads'
      BY <1>1, <3>1, <3>2, StagesKeep, NoLoadStages
    <3>4. load'[p].pc \notin {"sessions", "turns"}
      BY <3>1, NoLoadStages
    <3> QED
      BY <1>1, <1>2, <2>1, <3>1, <3>3, <3>4, LoadsDouble
  <2>8. CASE Answer(p)
    <3>1. /\ Moves(p) /\ Lightens(p) /\ UNCHANGED todo /\ \A q \in Loads \ {p} : load'[q] = load[q]
          /\ load'[p] = NoLoad
      BY <1>1, <2>8, AnswerMoves
    <3>2. StagesOfLoads' /\ load'[p].pc \notin {"sessions", "turns"}
      BY <1>1, <3>1, StagesKeep, NoLoadStages
    <3> QED
      BY <1>1, <1>2, <2>1, <3>1, <3>2, LoadsDouble
  <2> QED
    BY <1>7, <2>2, <2>3, <2>4, <2>5, <2>6, <2>7, <2>8
<1>8. CASE UNCHANGED cascadeVars
  <2>1. UNCHANGED <<status, job, turns, review, todo, load>>
    BY <1>8 DEF cascadeVars, tables
  <2>2. /\ \A t : Copies(t)' = Copies(t) /\ Weight(t)' = Weight(t)
        /\ \A r : HaveRead(r)' = HaveRead(r)
        /\ \A w, t : Held(w, t)' = Held(w, t)
    BY <2>1 DEF Copies, Weight, Held, WritersOf, HaveRead
  <2> QED
    BY <2>1, <2>2 DEF DoubledInv, StagesOfLoads, NothingToDouble, DoublingBounded, JobStoresOnce
<1> QED
  BY <1>3, <1>4, <1>5, <1>6, <1>7, <1>8 DEF CascadeNext

\* Nothing is stored, and no load has begun.
LEMMA DoubledStarts == CascadeInit => DoubledInv
<1> SUFFICES ASSUME CascadeInit PROVE DoubledInv
  OBVIOUS
<1>1. CascadeInv /\ JobsWrite
  BY CascadeStarts, LoadStarts DEF LoadInv
<1>2. /\ turns = <<>> /\ \A w \in Writers : todo[w] = <<>>
      /\ \A p \in Loads : load[p] = NoLoad
      /\ \A r \in Reviews : status[r] = "Running" /\ r \in Writers
  BY DEF CascadeInit, Writers
<1>3. StagesOfLoads
  BY <1>2, NoLoadStages DEF StagesOfLoads
<1>4. \A x : HowOften(<<>>, x) = 0
  <2>1. <<>> \in Seq(Statement) /\ DOMAIN <<>> = {}
    OBVIOUS
  <2> QED
    BY <2>1, HowOftenType
<1>5. ASSUME NEW t \in TurnRow
      PROVE  Copies(t) = 0 /\ \A w \in Writers : Held(w, t) = 0 /\ HowOften(todo[w], AsTurn(t)) = 0
  <2>1. Copies(t) = 0
    BY <1>2, <1>4 DEF Copies, HowOften
  <2>2. ASSUME NEW w \in Writers PROVE Held(w, t) = 0 /\ HowOften(todo[w], AsTurn(t)) = 0
    <3>1. HowOften(todo[w], AsTurn(t)) = 0
      BY <1>2, <1>4
    <3>2. w \in Loads => Carries(load[w], turns, t) = 0
      BY <1>2, NoLoadStages, CarriesNothing
    <3>3. 0 + 0 = 0
      OBVIOUS
    <3> QED
      BY <3>1, <3>2, <3>3 DEF Held
  <2> QED
    BY <2>1, <2>2
<1>6. NothingToDouble
  BY <1>5 DEF NothingToDouble, Writers
<1>7. JobStoresOnce
  <2>1. \A t \in TurnRow : t.review \in Writers
    BY DEF TurnRow, Writers
  <2>2. 0 + 0 <= 1
    OBVIOUS
  <2> QED
    BY <1>5, <2>1, <2>2 DEF JobStoresOnce
<1>8. DoublingBounded
  <2> SUFFICES ASSUME NEW t \in TurnRow PROVE Weight(t) <= Cardinality(SUBSET HaveRead(t.review))
    BY DEF DoublingBounded
  <2>1. PICK S \in SUBSET Loads : S = HaveRead(t.review)
    BY DEF HaveRead
  <2>2. Cardinality(SUBSET S) \in Nat /\ 1 <= Cardinality(SUBSET S)
    BY ReadersType
  <2>3. Weight(t) <= 1
    BY <1>1, <1>2, <1>6, <1>7, LightWhileRunning DEF TurnRow
  <2>4. Weight(t) \in Nat
    <3>1. PICK V : V = WritersOf(t.review)
      OBVIOUS
    <3>2. PICK f : f = [v \in V |-> Held(v, t)]
      OBVIOUS
    <3>3. IsFiniteSet(V) /\ \A v \in V : f[v] \in Nat
      BY <1>1, <3>1, <3>2, HeldType DEF WritersOf
    <3>4. Total(f, V) \in Nat /\ Copies(t) \in Nat
      BY <1>1, <3>3, TotalType, HeldType
    <3> QED
      BY <3>1, <3>2, <3>4 DEF Weight
  <2> QED
    BY <2>1, <2>2, <2>3, <2>4
<1> QED
  BY <1>3, <1>6, <1>7, <1>8 DEF DoubledInv

\* Copies are part of the weight of a turn, which the loads that have read it bound.
LEMMA DoubledSays ==
  ASSUME CascadeInv, JobsWrite, DoubledInv
  PROVE  DoubledByTornLoads
<1> SUFFICES ASSUME NEW t \in ToSet(turns)
             PROVE  /\ Copies(t) <= 2 ^ Cardinality({p \in Loads : review[p] = t.review})
                    /\ Copies(t) > 1 => status[t.review] = "Failed" /\ job[t.review] = "done"
  BY DEF DoubledByTornLoads
<1>1. t \in TurnRow
  BY DEF CascadeInv, TablesAreTyped, ToSet
<1>2. PICK c \in Nat : c = Copies(t)
  BY <1>1, HeldType
<1>3. PICK S \in SUBSET Loads : S = HaveRead(t.review)
  BY DEF HaveRead
<1>4. PICK L \in SUBSET Loads : L = {p \in Loads : review[p] = t.review}
  OBVIOUS
<1>5. c <= Cardinality(SUBSET S)
  <2>1. PICK V : V = WritersOf(t.review)
    OBVIOUS
  <2>2. PICK f : f = [v \in V |-> Held(v, t)]
    OBVIOUS
  <2>3. IsFiniteSet(V) /\ \A v \in V : f[v] \in Nat
    BY <1>1, <2>1, <2>2, HeldType DEF WritersOf
  <2>4. PICK n \in Nat : n = Total(f, V)
    BY <2>3, TotalType
  <2>5. Weight(t) = c + n
    BY <1>2, <2>1, <2>2, <2>4 DEF Weight
  <2>6. Weight(t) <= Cardinality(SUBSET S)
    BY <1>1, <1>3 DEF DoubledInv, DoublingBounded
  <2>7. Cardinality(SUBSET S) \in Nat
    BY ReadersType
  <2> QED
    BY <2>5, <2>6, <2>7
<1>6. IsFiniteSet(L) /\ Cardinality(SUBSET L) = 2 ^ Cardinality(L)
  BY ReadersType, FS_SUBSET
<1>7. Cardinality(SUBSET S) <= Cardinality(SUBSET L)
  <2>1. S \in SUBSET L
    BY <1>3, <1>4 DEF HaveRead
  <2> QED
    BY <1>6, <2>1, MoreSubsets
<1>8. c <= Cardinality(SUBSET L)
  <2>1. Cardinality(SUBSET S) \in Nat /\ Cardinality(SUBSET L) \in Nat
    BY ReadersType
  <2> QED
    BY <1>5, <1>7, <2>1
<1>9. Copies(t) > 1 => status[t.review] = "Failed" /\ job[t.review] = "done"
  <2>1. t.review \in Writers
    BY <1>1 DEF TurnRow, Writers
  <2>2. HowOften(todo[t.review], AsTurn(t)) \in Nat
    BY <1>1, <2>1, HeldType
  <2>3. \/ Copies(t) + HowOften(todo[t.review], AsTurn(t)) <= 1
        \/ status[t.review] = "Failed" /\ job[t.review] = "done"
    BY <1>1 DEF DoubledInv, JobStoresOnce
  <2> QED
    BY <1>2, <2>2, <2>3
<1>10. Copies(t) <= 2 ^ Cardinality(L)
  BY <1>2, <1>6, <1>8
<1> QED
  BY <1>4, <1>9, <1>10

\* A turn is stored once by the job, and each load that was under way when the row
\* ended at most doubles it, under a row it marks as failed (DoubledByTornLoads):
\* with each load that reads the turns the weight of a turn, its copies and what
\* the writers may still store of it, at most doubles.
THEOREM TornLoadsDouble == CascadeSpec => []DoubledByTornLoads
<1>1. CascadeInit => CascadeInv /\ LoadInv /\ DoubledInv
  BY CascadeStarts, LoadStarts, DoubledStarts
<1>2. CascadeInv /\ LoadInv /\ DoubledInv /\ [CascadeNext]_cascadeVars
        => CascadeInv' /\ LoadInv' /\ DoubledInv'
  <2> SUFFICES ASSUME CascadeInv, LoadInv, DoubledInv, [CascadeNext]_cascadeVars
               PROVE  CascadeInv' /\ LoadInv' /\ DoubledInv'
    OBVIOUS
  <2>1. CascadeInv' /\ LoadInv'
    BY CascadeKeeps, LoadKeepsInv
  <2>2. DoubledInv'
    BY <2>1, DoubledKeeps
  <2> QED
    BY <2>1, <2>2
<1>3. CascadeInv /\ LoadInv /\ DoubledInv => DoubledByTornLoads
  BY DoubledSays DEF LoadInv
<1> QED
  BY <1>1, <1>2, <1>3, PTL DEF CascadeSpec

\* Whoever writes and loads, the rows of a review hang together, a load after a
\* save gets all of them, and only torn loads store them again (CascadeIsWhole).
THEOREM CascadeStaysWhole == CascadeSpec => []CascadeIsWhole
<1>1. MessagesUnderTheirTurn /\ ParentsFirst /\ LoadIsWhole /\ DoubledByTornLoads => CascadeIsWhole
  BY DEF CascadeIsWhole
<1> QED
  BY <1>1, RowsHangTogether, LoadsAreWhole, TornLoadsDouble, PTL

-----------------------------------------------------------------------------
(* The cache of answers.                                                    *)

Waiting == {"truncate", "write", "index", "save"}
States == [pc : {"idle", "compute"} \cup Waiting, key : {NoCall.key} \cup CacheKeys, answer : Nat]

CallsAreTyped ==
  /\ asked \in Seq(CacheKeys) /\ Len(asked) <= MaxComputed
  /\ call \in [Callers -> States]
  /\ \A p \in Callers : call[p].pc # "idle" => call[p].key \in CacheKeys
  /\ \A p \in Callers : call[p].pc \in Waiting =>
       call[p].answer \in 1 .. Len(asked) /\ asked[call[p].answer] = call[p].key

\* A file is blocks of answers that were computed for its key, each at its place.
BlocksInPlace ==
  /\ file \in [{FileOf(k) : k \in CacheKeys} -> Seq(Nat \X Nat)]
  /\ \A k \in CacheKeys : \A i \in DOMAIN file[FileOf(k)] :
       \E n \in 1 .. Len(asked) : asked[n] = k /\ file[FileOf(k)][i] = <<n, i>>

CacheInv == CallsAreTyped /\ BlocksInPlace /\ HitIsOneAnswer

\* No two keys have one file.
LEMMA FilesApart == \A j, k : FileOf(j) = FileOf(k) => j = k
  BY DEF FileOf

\* Nothing is stored.
LEMMA CacheStarts == CacheInit => CacheInv
<1> SUFFICES ASSUME CacheInit PROVE CacheInv
  OBVIOUS
<1>1. NoCall \in States /\ NoCall.pc = "idle"
  BY DEF NoCall, States
<1>2. CallsAreTyped
  BY <1>1, CacheAssumption DEF CacheAssumption, CacheInit, CallsAreTyped, Waiting
<1>3. BlocksInPlace
  BY DEF CacheInit, BlocksInPlace
<1> QED
  BY <1>2, <1>3 DEF CacheInit, CacheInv, HitIsOneAnswer

\* The blocks of an answer are its own.
LEMMA TextBlocks ==
  ASSUME NEW n \in Nat
  PROVE  /\ TextOf(n) \in Seq(Nat \X Nat)
         /\ Len(TextOf(n)) \in Nat \ {0}
         /\ DOMAIN TextOf(n) = 1 .. Len(TextOf(n))
         /\ \A i \in 1 .. Len(TextOf(n)) : TextOf(n)[i] = <<n, i>>
<1>1. 1 + (n % 2) \in Nat \ {0}
  OBVIOUS
<1> DEFINE m == 1 + (n % 2)
<1> HIDE DEF m
<1>2. [i \in 1 .. m |-> <<n, i>>] \in Seq(Nat \X Nat) /\ Len([i \in 1 .. m |-> <<n, i>>]) = m
  BY <1>1 DEF m
<1> QED
  BY <1>1, <1>2 DEF TextOf, m

\* What is over the beginning of a file, and what is left of the file behind it.
LEMMA OverBlocks ==
  ASSUME NEW S, NEW new \in Seq(S), NEW old \in Seq(S)
  PROVE  /\ Over(new, old) \in Seq(S)
         /\ \A i \in DOMAIN Over(new, old) :
              IF i <= Len(new) THEN Over(new, old)[i] = new[i]
                               ELSE i \in DOMAIN old /\ Over(new, old)[i] = old[i]
         /\ old = <<>> => Over(new, old) = new
<1> DEFINE rest == SubSeq(old, Len(new) + 1, Len(old))
<1>1. rest \in Seq(S)
  OBVIOUS
<1>2. /\ Len(rest) = IF Len(new) + 1 <= Len(old) THEN Len(old) - Len(new) ELSE 0
      /\ \A i \in 1 .. Len(rest) : rest[i] = old[Len(new) + i]
  OBVIOUS
<1> HIDE DEF rest
<1>3. /\ new \o rest \in Seq(S)
      /\ Len(new \o rest) = Len(new) + Len(rest)
      /\ \A i \in 1 .. Len(new) + Len(rest) :
           (new \o rest)[i] = IF i <= Len(new) THEN new[i] ELSE rest[i - Len(new)]
  BY <1>1
<1>4. Over(new, old) = new \o rest
  BY DEF Over, rest
<1>5. DOMAIN (new \o rest) = 1 .. Len(new) + Len(rest)
  BY <1>3
<1>6. ASSUME old = <<>> PROVE new \o rest = new
  <2>1. Len(rest) = 0
    BY <1>2, <1>6
  <2>2. Len(new \o rest) = Len(new) /\ \A i \in 1 .. Len(new) : (new \o rest)[i] = new[i]
    BY <1>3, <2>1
  <2> QED
    BY <1>3, <2>2, SeqEqual
<1> QED
  BY <1>2, <1>3, <1>4, <1>5, <1>6

\* Steps that leave the files, the answers and what was returned alone.
LEMMA OnlyCalls ==
  ASSUME CacheInv, UNCHANGED <<file, hit, asked>>, CallsAreTyped'
  PROVE  CacheInv'
  BY DEF CacheInv, BlocksInPlace, HitIsOneAnswer

\* A caller looks into the file, whatever of an answer is in it.
LEMMA CacheLoadStep ==
  ASSUME CacheInv, NEW p \in Callers, NEW k \in CacheKeys, CacheLoad(p, k)
  PROVE  CacheInv'
<1> USE DEF CacheInv
<1> DEFINE text == file[FileOf(k)]
<1>1. UNCHANGED <<file, asked>> /\ call[p].pc = "idle"
  BY DEF CacheLoad
<1>2. CASE Parses(text) /\ hit' = [key |-> k, text |-> text] /\ UNCHANGED call
  <2>1. PICK n \in Nat : text = TextOf(n)
    BY <1>2, CacheAssumption DEF CacheAssumption, Parses, Answers
  <2>2. /\ DOMAIN TextOf(n) = 1 .. Len(TextOf(n)) /\ Len(TextOf(n)) \in Nat \ {0}
        /\ \A i \in 1 .. Len(TextOf(n)) : TextOf(n)[i] = <<n, i>>
    BY <2>1, TextBlocks
  <2>3. 1 \in DOMAIN text /\ text[1] = <<n, 1>>
    <3>1. 1 \in 1 .. Len(TextOf(n))
      BY <2>2
    <3> QED
      BY <2>1, <2>2, <3>1
  <2>4. PICK m \in 1 .. Len(asked) : asked[m] = k /\ text[1] = <<m, 1>>
    BY <2>3 DEF BlocksInPlace
  <2>5. n \in DOMAIN asked /\ asked[n] = k
    <3>1. m = n
      BY <2>3, <2>4
    <3>2. DOMAIN asked = 1 .. Len(asked)
      BY DEF CallsAreTyped
    <3> QED
      BY <2>4, <3>1, <3>2
  <2> HIDE DEF text
  <2>6. hit'.key = k /\ hit'.text = TextOf(n)
    BY <1>2, <2>1
  <2>7. HitIsOneAnswer'
    BY <1>1, <2>5, <2>6 DEF HitIsOneAnswer
  <2>8. CallsAreTyped' /\ BlocksInPlace'
    BY <1>1, <1>2 DEF CallsAreTyped, BlocksInPlace
  <2> QED
    BY <2>7, <2>8
<1>3. CASE call' = [call EXCEPT ![p] = [pc |-> "compute", key |-> k, answer |-> 0]] /\ UNCHANGED hit
  <2> DEFINE c == [pc |-> "compute", key |-> k, answer |-> 0]
  <2>1. c \in States /\ c.pc = "compute" /\ c.key = k /\ c.pc \notin Waiting
    BY DEF States, Waiting
  <2> HIDE DEF c
  <2>2. call' = [call EXCEPT ![p] = c]
    BY <1>3 DEF c
  <2>3. CallsAreTyped'
    BY <1>1, <2>1, <2>2 DEF CallsAreTyped
  <2> QED
    BY <1>1, <1>3, <2>3, OnlyCalls
<1> QED
  BY <1>2, <1>3 DEF CacheLoad

\* A model answers; no answer is like another.
LEMMA ComputeStep ==
  ASSUME CacheInv, NEW p \in Callers, Compute(p)
  PROVE  CacheInv'
<1> USE DEF CacheInv
<1> DEFINE n == Len(asked) + 1
           k == call[p].key
<1>1. /\ call[p].pc = "compute" /\ Len(asked) < MaxComputed
      /\ asked' = Append(asked, k)
      /\ call' = [call EXCEPT ![p].pc = "truncate", ![p].answer = n]
      /\ UNCHANGED <<file, hit>>
  BY DEF Compute
<1>2. /\ asked' \in Seq(CacheKeys) /\ Len(asked') = n /\ n \in Nat /\ n <= MaxComputed
      /\ DOMAIN asked = 1 .. Len(asked) /\ DOMAIN asked' = 1 .. n
      /\ asked'[n] = k /\ \A m \in 1 .. Len(asked) : m \in 1 .. n /\ asked'[m] = asked[m]
      /\ n \in 1 .. n
  BY <1>1, CacheAssumption DEF CacheAssumption, CallsAreTyped
<1> HIDE DEF n
<1>3. CallsAreTyped'
  <2>1. /\ call' \in [Callers -> States]
        /\ call'[p].pc = "truncate" /\ call'[p].answer = n /\ call'[p].key = k
        /\ \A q \in Callers \ {p} : call'[q] = call[q]
    BY <1>1, <1>2 DEF CallsAreTyped, States, Waiting
  <2> QED
    BY <1>1, <1>2, <2>1 DEF CallsAreTyped
<1>4. BlocksInPlace'
  BY <1>1, <1>2 DEF BlocksInPlace
<1>5. HitIsOneAnswer'
  BY <1>1, <1>2 DEF HitIsOneAnswer
<1> QED
  BY <1>3, <1>4, <1>5

\* A step that only moves a caller on.
LEMMA MovesOn ==
  ASSUME CacheInv, NEW p \in Callers, call[p].pc \in Waiting,
         NEW stop \in Waiting, call' = [call EXCEPT ![p].pc = stop], UNCHANGED asked
  PROVE  /\ CallsAreTyped'
         /\ call'[p].pc = stop /\ call'[p].key = call[p].key /\ call'[p].answer = call[p].answer
         /\ \A q \in Callers \ {p} : call'[q] = call[q]
<1>1. /\ call' \in [Callers -> States]
      /\ call'[p].pc = stop /\ call'[p].key = call[p].key /\ call'[p].answer = call[p].answer
      /\ \A q \in Callers \ {p} : call'[q] = call[q]
  BY DEF CacheInv, CallsAreTyped, States
<1> QED
  BY <1>1 DEF CacheInv, CallsAreTyped, Waiting

\* A caller empties the file it will write.
LEMMA TruncateStep ==
  ASSUME CacheInv, NEW p \in Callers, Truncate(p)
  PROVE  CacheInv'
<1> DEFINE k == call[p].key
<1>1. /\ call[p].pc = "truncate" /\ UNCHANGED <<asked, hit>>
      /\ \E stop \in {"write", "index"} : call' = [call EXCEPT ![p].pc = stop]
      /\ UNCHANGED file \/ file' = [file EXCEPT ![FileOf(k)] = <<>>]
  BY DEF Truncate
<1>2. CallsAreTyped'
  BY <1>1, MovesOn DEF Waiting
<1> HIDE DEF k
<1>3. BlocksInPlace'
  <2>1. /\ \A f \in DOMAIN file' : file'[f] = file[f] \/ file'[f] = <<>>
        /\ DOMAIN file' = DOMAIN file
    BY <1>1 DEF CacheInv, BlocksInPlace
  <2> DEFINE S == Seq(Nat \X Nat)
  <2>2. <<>> \in S /\ DOMAIN <<>> = {}
    OBVIOUS
  <2>3. file \in [{FileOf(j) : j \in CacheKeys} -> S]
    BY DEF CacheInv, BlocksInPlace
  <2> HIDE DEF S
  <2>4. file' \in [{FileOf(j) : j \in CacheKeys} -> S]
    BY <1>1, <2>2, <2>3
  <2>5. \A f \in DOMAIN file' : \A i \in DOMAIN file'[f] : file'[f] = file[f]
    BY <2>1, <2>2
  <2>6. \A j \in CacheKeys : FileOf(j) \in DOMAIN file'
    BY <2>4
  <2>7. ASSUME NEW j \in CacheKeys, NEW i \in DOMAIN file'[FileOf(j)]
        PROVE  \E m \in 1 .. Len(asked) : asked[m] = j /\ file'[FileOf(j)][i] = <<m, i>>
    <3>1. file'[FileOf(j)] = file[FileOf(j)]
      BY <2>5, <2>6
    <3> QED
      BY <3>1 DEF CacheInv, BlocksInPlace
  <2> QED
    BY <1>1, <2>4, <2>7 DEF BlocksInPlace, S
<1>4. HitIsOneAnswer'
  BY <1>1 DEF CacheInv, HitIsOneAnswer
<1> QED
  BY <1>2, <1>3, <1>4 DEF CacheInv

\* A caller writes its answer over what the file has become.
LEMMA WriteTextStep ==
  ASSUME CacheInv, NEW p \in Callers, WriteText(p)
  PROVE  CacheInv'
<1> DEFINE k == call[p].key
           n == call[p].answer
           f == FileOf(k)
<1>1. /\ call[p].pc = "write" /\ call' = [call EXCEPT ![p].pc = "index"]
      /\ UNCHANGED <<asked, hit>>
      /\ file' = [file EXCEPT ![f] = Over(TextOf(n), @)] \/ UNCHANGED file
  BY DEF WriteText
<1>2. CallsAreTyped'
  BY <1>1, MovesOn DEF Waiting
<1>3. k \in CacheKeys /\ n \in 1 .. Len(asked) /\ n \in Nat /\ asked[n] = k
  BY <1>1 DEF CacheInv, CallsAreTyped, Waiting
<1>4. HitIsOneAnswer'
  BY <1>1 DEF CacheInv, HitIsOneAnswer
<1>5. CASE UNCHANGED file
  BY <1>1, <1>2, <1>4, <1>5 DEF CacheInv, BlocksInPlace
<1>6. CASE file' = [file EXCEPT ![f] = Over(TextOf(n), @)]
  <2> DEFINE S == Nat \X Nat
             new == TextOf(n)
  <2>1. new \in Seq(S) /\ \A i \in 1 .. Len(new) : new[i] = <<n, i>>
    BY <1>3, TextBlocks
  <2>2. file[f] \in Seq(S) /\ f \in DOMAIN file
    BY <1>3 DEF CacheInv, BlocksInPlace
  <2>3. file'[f] = Over(new, file[f]) /\ \A j \in CacheKeys \ {k} : file'[FileOf(j)] = file[FileOf(j)]
    BY <1>3, <1>6, <2>2, FilesApart DEF CacheInv, BlocksInPlace
  <2> HIDE DEF n, S, new, f
  <2>4. /\ Over(new, file[f]) \in Seq(S)
        /\ \A i \in DOMAIN Over(new, file[f]) :
             IF i <= Len(new) THEN Over(new, file[f])[i] = new[i]
                              ELSE i \in DOMAIN file[f] /\ Over(new, file[f])[i] = file[f][i]
    BY <2>1, <2>2, OverBlocks
  <2>5. ASSUME NEW i \in DOMAIN file'[f]
        PROVE  \E m \in 1 .. Len(asked) : asked[m] = k /\ file'[f][i] = <<m, i>>
    <3>1. i \in Nat /\ i >= 1
      BY <2>3, <2>4
    <3>2. CASE i <= Len(new)
      <4>1. file'[f][i] = new[i] /\ i \in 1 .. Len(new)
        BY <2>1, <2>3, <2>4, <3>1, <3>2
      <4>2. file'[f][i] = <<n, i>>
        BY <2>1, <4>1
      <4> QED
        BY <1>3, <4>2
    <3>3. CASE ~(i <= Len(new))
      <4>1. i \in DOMAIN file[f] /\ file'[f][i] = file[f][i]
        BY <2>3, <2>4, <3>3
      <4>2. \E m \in 1 .. Len(asked) : asked[m] = k /\ file[f][i] = <<m, i>>
        BY <1>3, <4>1 DEF CacheInv, BlocksInPlace, f
      <4> QED
        BY <4>1, <4>2
    <3> QED
      BY <3>2, <3>3
  <2>6. file' \in [{FileOf(j) : j \in CacheKeys} -> Seq(S)]
    <3>1. file \in [{FileOf(j) : j \in CacheKeys} -> Seq(S)]
      BY DEF CacheInv, BlocksInPlace, S
    <3>2. file' = [file EXCEPT ![f] = Over(new, file[f])]
      BY <1>6 DEF new
    <3> QED
      BY <2>4, <3>1, <3>2
  <2>7. BlocksInPlace'
    BY <1>1, <2>3, <2>5, <2>6 DEF CacheInv, BlocksInPlace, S, f
  <2> QED
    BY <1>2, <1>4, <2>7 DEF CacheInv
<1> QED
  BY <1>1, <1>5, <1>6

\* Every step of every caller.
LEMMA CacheSteps == CacheInv /\ [CacheNext]_cacheVars => CacheInv'
<1> SUFFICES ASSUME CacheInv, [CacheNext]_cacheVars PROVE CacheInv'
  OBVIOUS
<1>1. ASSUME NEW p \in Callers, NEW k \in CacheKeys, CacheLoad(p, k) PROVE CacheInv'
  BY <1>1, CacheLoadStep
<1>2. ASSUME NEW p \in Callers, Compute(p) \/ Truncate(p) \/ WriteText(p) PROVE CacheInv'
  BY <1>2, ComputeStep, TruncateStep, WriteTextStep
<1>3. ASSUME NEW p \in Callers, InsertIndex(p) \/ SaveIndex(p) \/ Die(p) PROVE CacheInv'
  <2>1. UNCHANGED <<file, hit, asked>>
    BY <1>3 DEF InsertIndex, SaveIndex, Die
  <2>2. \/ call[p].pc \in Waiting /\ call' = [call EXCEPT ![p].pc = "save"]
        \/ call' = [call EXCEPT ![p] = NoCall]
    BY <1>3 DEF InsertIndex, SaveIndex, Die, Waiting
  <2>3. CallsAreTyped'
    <3>1. CASE call[p].pc \in Waiting /\ call' = [call EXCEPT ![p].pc = "save"]
      BY <2>1, <3>1, MovesOn DEF Waiting
    <3>2. CASE call' = [call EXCEPT ![p] = NoCall]
      <4>1. NoCall \in States /\ NoCall.pc = "idle" /\ "idle" \notin Waiting
        BY DEF NoCall, States, Waiting
      <4> QED
        BY <2>1, <3>2, <4>1 DEF CacheInv, CallsAreTyped
    <3> QED
      BY <2>2, <3>1, <3>2
  <2> QED
    BY <2>1, <2>3, OnlyCalls
<1>4. CASE UNCHANGED cacheVars
  BY <1>4 DEF cacheVars, CacheInv, CallsAreTyped, BlocksInPlace, HitIsOneAnswer
<1> QED
  BY <1>1, <1>2, <1>3, <1>4 DEF CacheNext

\* Two callers of a key trouble it; who computes an untroubled key finds no answer to
\* it, who writes one finds its file empty; and an answer is in its file, or its
\* caller is about to write it there.
OnceInv ==
  /\ \A p, q \in Callers :
       p # q /\ call[p].pc # "idle" /\ call[q].pc # "idle" /\ call[p].key = call[q].key
         => call[p].key \in troubled
  /\ \A p \in Callers : call[p].pc = "compute" /\ call[p].key \notin troubled =>
       \A n \in 1 .. Len(asked) : asked[n] # call[p].key
  /\ \A p \in Callers : call[p].pc = "write" /\ call[p].key \notin troubled =>
       file[FileOf(call[p].key)] = <<>>
  /\ \A n \in 1 .. Len(asked) : asked[n] \notin troubled =>
       \/ file[FileOf(asked[n])] = TextOf(n)
       \/ \E p \in Callers : call[p].pc \in {"truncate", "write"} /\ call[p].answer = n

\* Nothing is asked for.
LEMMA OnceStarts == CacheInit => OnceInv /\ PaidOnce
<1>1. NoCall.pc = "idle"
  BY DEF NoCall
<1> QED
  BY <1>1 DEF CacheInit, OnceInv, PaidOnce

\* A caller that does not find an answer of its key.
LEMMA MissKeepsOnce ==
  ASSUME CacheInv, OnceInv, PaidOnce, NEW p \in Callers, NEW k \in CacheKeys, CacheLoad(p, k)
  PROVE  OnceInv' /\ PaidOnce'
<1>1. call[p].pc = "idle" /\ UNCHANGED <<file, asked>>
  BY DEF CacheLoad
<1>2. CASE UNCHANGED <<call, troubled>>
  BY <1>1, <1>2 DEF OnceInv, PaidOnce
<1>3. CASE /\ ~Parses(file[FileOf(k)])
           /\ call' = [call EXCEPT ![p] = [pc |-> "compute", key |-> k, answer |-> 0]]
           /\ troubled' = troubled \cup {call[q].key : q \in {q \in Callers :
                                           call[q].pc # "idle" /\ call[q].key = k}}
  <2>1. /\ call'[p].pc = "compute" /\ call'[p].key = k
        /\ \A q \in Callers \ {p} : call'[q] = call[q]
    BY <1>3 DEF CacheInv, CallsAreTyped
  <2>2. /\ troubled \subseteq troubled'
        /\ \A q \in Callers : call[q].pc # "idle" /\ call[q].key = k => k \in troubled'
    BY <1>3
  <2>3. PaidOnce'
    BY <1>1, <2>2 DEF PaidOnce
  <2>4. ASSUME NEW n \in 1 .. Len(asked), asked[n] = k, k \notin troubled' PROVE FALSE
    <3>1. k \notin troubled
      BY <2>2, <2>4
    <3>2. \A q \in Callers : call[q].pc \in {"truncate", "write"} /\ call[q].answer = n => call[q].key = k
      BY <2>4 DEF CacheInv, CallsAreTyped, Waiting
    <3>3. file[FileOf(k)] = TextOf(n)
      BY <2>2, <2>4, <3>1, <3>2 DEF OnceInv
    <3>4. n \in Answers
      BY CacheAssumption DEF CacheAssumption, CacheInv, CallsAreTyped, Answers
    <3> QED
      BY <1>3, <3>3, <3>4 DEF Parses
  <2>5. \A q, r \in Callers :
          q # r /\ call'[q].pc # "idle" /\ call'[r].pc # "idle" /\ call'[q].key = call'[r].key
            => call'[q].key \in troubled'
    BY <2>1, <2>2 DEF OnceInv
  <2>6. \A q \in Callers : call'[q].pc = "compute" /\ call'[q].key \notin troubled' =>
          \A n \in 1 .. Len(asked) : asked[n] # call'[q].key
    BY <2>1, <2>2, <2>4 DEF OnceInv
  <2>7. \A q \in Callers : call'[q].pc = "write" /\ call'[q].key \notin troubled' =>
          file[FileOf(call'[q].key)] = <<>>
    BY <2>1, <2>2 DEF OnceInv
  <2>8. \A n \in 1 .. Len(asked) : asked[n] \notin troubled' =>
          \/ file[FileOf(asked[n])] = TextOf(n)
          \/ \E q \in Callers : call'[q].pc \in {"truncate", "write"} /\ call'[q].answer = n
    BY <1>1, <2>1, <2>2 DEF OnceInv
  <2> QED
    BY <1>1, <2>3, <2>5, <2>6, <2>7, <2>8 DEF OnceInv
<1> QED
  BY <1>2, <1>3 DEF CacheLoad

\* A caller that computes an answer.
LEMMA ComputeKeepsOnce ==
  ASSUME CacheInv, OnceInv, PaidOnce, NEW p \in Callers, Compute(p)
  PROVE  OnceInv' /\ PaidOnce'
<1> DEFINE k == call[p].key
           n == Len(asked) + 1
<1>1. /\ call[p].pc = "compute" /\ asked' = Append(asked, k)
      /\ call' = [call EXCEPT ![p].pc = "truncate", ![p].answer = n]
      /\ UNCHANGED <<file, troubled>>
  BY DEF Compute
<1>2. /\ n \in Nat /\ DOMAIN asked' = 1 .. n /\ Len(asked') = n
      /\ asked'[n] = k /\ \A m \in 1 .. n \ {n} : m \in 1 .. Len(asked) /\ asked'[m] = asked[m]
      /\ DOMAIN asked = 1 .. Len(asked)
  BY <1>1 DEF CacheInv, CallsAreTyped
<1>3. /\ call'[p].pc = "truncate" /\ call'[p].key = k /\ call'[p].answer = n
      /\ \A q \in Callers \ {p} : call'[q] = call[q]
  BY <1>1 DEF CacheInv, CallsAreTyped, States
<1> HIDE DEF n
<1>4. k \notin troubled => \A m \in 1 .. Len(asked) : asked[m] # k
  BY <1>1 DEF OnceInv
<1> HIDE DEF k
<1>5. PaidOnce'
  <2> SUFFICES ASSUME NEW l \in 1 .. n, NEW m \in 1 .. n,
                      asked'[l] = asked'[m], asked'[l] \notin troubled, l # m
               PROVE  FALSE
    BY <1>1, <1>2 DEF PaidOnce
  <2>1. CASE l = n
    BY <1>2, <1>4, <2>1
  <2>2. CASE m = n
    BY <1>2, <1>4, <2>2
  <2>3. CASE l # n /\ m # n
    <3>1. /\ l \in DOMAIN asked /\ m \in DOMAIN asked
          /\ asked[l] = asked[m] /\ asked[l] \notin troubled
      BY <1>2, <2>3
    <3> QED
      BY <3>1 DEF PaidOnce
  <2> QED
    BY <2>1, <2>2, <2>3
<1>6. \A q, r \in Callers :
        q # r /\ call'[q].pc # "idle" /\ call'[r].pc # "idle" /\ call'[q].key = call'[r].key
          => call'[q].key \in troubled
  <2>1. \A q \in Callers : call'[q].pc # "idle" => call[q].pc # "idle" /\ call'[q].key = call[q].key
    BY <1>1, <1>3 DEF k
  <2> QED
    BY <2>1 DEF OnceInv
<1>7. ASSUME NEW q \in Callers, call'[q].pc = "compute", call'[q].key \notin troubled,
             NEW m \in 1 .. n
      PROVE  asked'[m] # call'[q].key
  <2>1. q # p /\ call'[q] = call[q] /\ call[q].key # k
    BY <1>1, <1>3, <1>7 DEF OnceInv, k
  <2>2. CASE m = n
    BY <1>2, <2>1, <2>2
  <2>3. CASE m # n
    BY <1>2, <1>7, <2>1, <2>3 DEF OnceInv
  <2> QED
    BY <2>2, <2>3
<1>8. \A q \in Callers : call'[q].pc = "write" /\ call'[q].key \notin troubled =>
        file[FileOf(call'[q].key)] = <<>>
  BY <1>3 DEF OnceInv
<1>9. ASSUME NEW m \in 1 .. n, asked'[m] \notin troubled
      PROVE  \/ file[FileOf(asked'[m])] = TextOf(m)
             \/ \E q \in Callers : call'[q].pc \in {"truncate", "write"} /\ call'[q].answer = m
  <2>1. CASE m = n
    BY <1>3, <2>1
  <2>2. CASE m # n
    <3>1. m \in 1 .. Len(asked) /\ asked'[m] = asked[m]
      BY <1>2, <2>2
    <3>2. CASE file[FileOf(asked[m])] = TextOf(m)
      BY <3>1, <3>2
    <3>3. ASSUME NEW q \in Callers, call[q].pc \in {"truncate", "write"}, call[q].answer = m
          PROVE  call'[q].pc \in {"truncate", "write"} /\ call'[q].answer = m
      BY <1>1, <1>3, <3>3
    <3> QED
      BY <1>9, <3>1, <3>2, <3>3 DEF OnceInv
  <2> QED
    BY <2>1, <2>2
<1>10. UNCHANGED <<file, troubled>> /\ Len(asked') = n
  BY <1>1, <1>2
<1>11. \A q \in Callers : call'[q].pc = "compute" /\ call'[q].key \notin troubled =>
         \A m \in 1 .. n : asked'[m] # call'[q].key
  BY <1>7
<1>12. \A m \in 1 .. n : asked'[m] \notin troubled =>
         \/ file[FileOf(asked'[m])] = TextOf(m)
         \/ \E q \in Callers : call'[q].pc \in {"truncate", "write"} /\ call'[q].answer = m
  BY <1>9
<1> QED
  BY <1>5, <1>6, <1>8, <1>10, <1>11, <1>12, Zenon DEF OnceInv

\* A caller that lets go of its key, or moves on without its file: its key is
\* troubled if it had an answer to write.
LEMMA LeavingKeepsOnce ==
  ASSUME CacheInv, OnceInv, PaidOnce, NEW p \in Callers, UNCHANGED <<file, asked>>,
         troubled' \in {troubled, troubled \cup {call[p].key}},
         call[p].pc \in {"truncate", "write"} => call[p].key \in troubled',
         \A q \in Callers \ {p} : call'[q] = call[q],
         call'[p].pc \in {"idle", "index", "save"},
         call'[p].pc # "idle" => call[p].pc # "idle" /\ call'[p].key = call[p].key
  PROVE  OnceInv' /\ PaidOnce'
<1>1. troubled \subseteq troubled'
  OBVIOUS
<1>2. PaidOnce'
  BY <1>1 DEF PaidOnce
<1>3. \A q, r \in Callers :
        q # r /\ call'[q].pc # "idle" /\ call'[r].pc # "idle" /\ call'[q].key = call'[r].key
          => call'[q].key \in troubled'
  BY <1>1 DEF OnceInv
<1>4. \A q \in Callers : call'[q].pc \in {"compute", "write"} => call'[q] = call[q]
  OBVIOUS
<1>5. ASSUME NEW n \in 1 .. Len(asked), asked[n] \notin troubled'
      PROVE  \/ file[FileOf(asked[n])] = TextOf(n)
             \/ \E q \in Callers : call'[q].pc \in {"truncate", "write"} /\ call'[q].answer = n
  <2>1. CASE \E q \in Callers : call[q].pc \in {"truncate", "write"} /\ call[q].answer = n
    <3>1. PICK q \in Callers : call[q].pc \in {"truncate", "write"} /\ call[q].answer = n
      BY <2>1
    <3>2. asked[n] = call[q].key
      BY <3>1 DEF CacheInv, CallsAreTyped, Waiting
    <3>3. q # p
      BY <1>5, <3>1, <3>2
    <3> QED
      BY <3>1, <3>3
  <2> QED
    BY <1>1, <1>5, <2>1 DEF OnceInv
<1> QED
  BY <1>1, <1>2, <1>3, <1>4, <1>5 DEF OnceInv

\* A caller that empties or writes the file of its key: its own answer alone is
\* of that key, or the key is troubled.
LEMMA FileKeepsOnce ==
  ASSUME CacheInv, OnceInv, PaidOnce, NEW p \in Callers, NEW x, UNCHANGED <<asked, troubled>>,
         call[p].pc \in {"truncate", "write"},
         file' = [file EXCEPT ![FileOf(call[p].key)] = x],
         \A q \in Callers \ {p} : call'[q] = call[q],
         call'[p].key = call[p].key, call'[p].answer = call[p].answer,
         \/ call'[p].pc = "write" /\ x = <<>>
         \/ /\ call'[p].pc = "index"
            /\ file[FileOf(call[p].key)] = <<>> => x = TextOf(call[p].answer)
            /\ call[p].pc = "write"
  PROVE  OnceInv' /\ PaidOnce'
<1> DEFINE k == call[p].key
           a == call[p].answer
<1>1. k \in CacheKeys /\ a \in 1 .. Len(asked) /\ asked[a] = k
  BY DEF CacheInv, CallsAreTyped, Waiting
<1>2. file'[FileOf(k)] = x /\ \A j \in CacheKeys \ {k} : file'[FileOf(j)] = file[FileOf(j)]
  BY <1>1, FilesApart DEF CacheInv, BlocksInPlace
<1>3. \A q \in Callers : call'[q].pc # "idle" => call[q].pc # "idle" /\ call'[q].key = call[q].key
  OBVIOUS
<1>4. PaidOnce'
  BY DEF PaidOnce
<1>5. \A q, r \in Callers :
        q # r /\ call'[q].pc # "idle" /\ call'[r].pc # "idle" /\ call'[q].key = call'[r].key
          => call'[q].key \in troubled
  BY <1>3 DEF OnceInv
<1>6. \A q \in Callers : call'[q].pc = "compute" => call'[q] = call[q]
  OBVIOUS
<1>7. ASSUME NEW q \in Callers, call'[q].pc = "write", call'[q].key \notin troubled
      PROVE  file'[FileOf(call'[q].key)] = <<>>
  <2>1. CASE q = p
    BY <1>2, <1>7, <2>1
  <2>2. CASE q # p
    <3>1. call'[q] = call[q] /\ call[q].key \in CacheKeys \ {k}
      BY <1>7, <2>2 DEF OnceInv, CacheInv, CallsAreTyped
    <3> QED
      BY <1>2, <1>7, <3>1 DEF OnceInv
  <2> QED
    BY <2>1, <2>2
<1>8. ASSUME NEW n \in 1 .. Len(asked), asked[n] \notin troubled
      PROVE  \/ file'[FileOf(asked[n])] = TextOf(n)
             \/ \E q \in Callers : call'[q].pc \in {"truncate", "write"} /\ call'[q].answer = n
  <2>1. CASE asked[n] = k
    <3>1. n = a
      <4>1. DOMAIN asked = 1 .. Len(asked)
        BY DEF CacheInv, CallsAreTyped
      <4> QED
        BY <1>1, <1>8, <2>1, <4>1 DEF PaidOnce
    <3>2. CASE call'[p].pc = "write"
      BY <3>1, <3>2
    <3>3. CASE call'[p].pc = "index"
      <4>1. file[FileOf(k)] = <<>>
        BY <1>8, <2>1, <3>3 DEF OnceInv
      <4> QED
        BY <1>2, <2>1, <3>1, <3>3, <4>1
    <3> QED
      BY <3>2, <3>3
  <2>2. CASE asked[n] # k
    <3>1. asked[n] \in CacheKeys \ {k}
      BY <2>2 DEF CacheInv, CallsAreTyped
    <3>2. \A q \in Callers : call[q].pc \in {"truncate", "write"} /\ call[q].answer = n => q # p
      BY <1>1, <2>2
    <3> QED
      BY <1>2, <1>8, <3>1, <3>2 DEF OnceInv
  <2> QED
    BY <2>1, <2>2
<1> QED
  BY <1>3, <1>4, <1>5, <1>6, <1>7, <1>8 DEF OnceInv

\* Every step of every caller computes no answer twice.
LEMMA OnceKept ==
  CacheInv /\ OnceInv /\ PaidOnce /\ [CacheNext]_cacheVars => OnceInv' /\ PaidOnce'
<1> SUFFICES ASSUME CacheInv, OnceInv, PaidOnce, [CacheNext]_cacheVars PROVE OnceInv' /\ PaidOnce'
  OBVIOUS
<1>1. ASSUME NEW p \in Callers, NEW k \in CacheKeys, CacheLoad(p, k) PROVE OnceInv' /\ PaidOnce'
  BY <1>1, MissKeepsOnce
<1>2. ASSUME NEW p \in Callers, Compute(p) PROVE OnceInv' /\ PaidOnce'
  BY <1>2, ComputeKeepsOnce
<1>3. ASSUME NEW p \in Callers, Truncate(p) PROVE OnceInv' /\ PaidOnce'
  <2> DEFINE f == FileOf(call[p].key)
  <2>1. call[p].pc = "truncate" /\ UNCHANGED asked
    BY <1>3 DEF Truncate
  <2>2. CASE /\ file' = [file EXCEPT ![f] = <<>>]
             /\ call' = [call EXCEPT ![p].pc = "write"] /\ UNCHANGED troubled
    <3>1. /\ call'[p].pc = "write" /\ call'[p].key = call[p].key /\ call'[p].answer = call[p].answer
          /\ \A q \in Callers \ {p} : call'[q] = call[q]
      BY <2>1, <2>2, MovesOn DEF Waiting
    <3> QED
      BY <2>1, <2>2, <3>1, FileKeepsOnce
  <2>3. CASE /\ UNCHANGED file /\ call' = [call EXCEPT ![p].pc = "index"]
             /\ troubled' = troubled \cup {call[p].key}
    <3>1. /\ call'[p].pc = "index" /\ call'[p].key = call[p].key
          /\ \A q \in Callers \ {p} : call'[q] = call[q]
      BY <2>1, <2>3, MovesOn DEF Waiting
    <3> QED
      BY <2>1, <2>3, <3>1, LeavingKeepsOnce
  <2> QED
    BY <1>3, <2>2, <2>3 DEF Truncate
<1>4. ASSUME NEW p \in Callers, WriteText(p) PROVE OnceInv' /\ PaidOnce'
  <2> DEFINE f == FileOf(call[p].key)
             n == call[p].answer
  <2>1. call[p].pc = "write" /\ UNCHANGED asked /\ call' = [call EXCEPT ![p].pc = "index"]
    BY <1>4 DEF WriteText
  <2>2. /\ call'[p].pc = "index" /\ call'[p].key = call[p].key /\ call'[p].answer = n
        /\ \A q \in Callers \ {p} : call'[q] = call[q]
    BY <2>1, MovesOn DEF Waiting
  <2>3. CASE file' = [file EXCEPT ![f] = Over(TextOf(n), @)] /\ UNCHANGED troubled
    <3> DEFINE x == Over(TextOf(n), file[f])
    <3>1. file' = [file EXCEPT ![f] = x]
      BY <2>3
    <3>2. file[f] = <<>> => x = TextOf(n)
      <4>1. n \in Nat /\ call[p].key \in CacheKeys
        BY <2>1 DEF CacheInv, CallsAreTyped, Waiting
      <4>2. TextOf(n) \in Seq(Nat \X Nat) /\ file[f] \in Seq(Nat \X Nat)
        BY <4>1, TextBlocks DEF CacheInv, BlocksInPlace
      <4>3. \A new, old \in Seq(Nat \X Nat) : old = <<>> => Over(new, old) = new
        BY OverBlocks
      <4> QED
        BY <4>2, <4>3, Zenon
    <3> HIDE DEF x
    <3> QED
      BY <2>1, <2>2, <2>3, <3>1, <3>2, FileKeepsOnce
  <2>4. CASE UNCHANGED file /\ troubled' = troubled \cup {call[p].key}
    BY <2>1, <2>2, <2>4, LeavingKeepsOnce
  <2> QED
    BY <1>4, <2>3, <2>4 DEF WriteText
<1>5. ASSUME NEW p \in Callers, InsertIndex(p) PROVE OnceInv' /\ PaidOnce'
  <2>1. call[p].pc = "index" /\ call' = [call EXCEPT ![p].pc = "save"] /\ UNCHANGED <<file, asked, troubled>>
    BY <1>5 DEF InsertIndex
  <2>2. /\ call'[p].pc = "save" /\ call'[p].key = call[p].key
        /\ \A q \in Callers \ {p} : call'[q] = call[q]
    BY <2>1, MovesOn DEF Waiting
  <2> QED
    BY <2>1, <2>2, LeavingKeepsOnce
<1>6. ASSUME NEW p \in Callers, SaveIndex(p) \/ Die(p) PROVE OnceInv' /\ PaidOnce'
  <2>1. call' = [call EXCEPT ![p] = NoCall] /\ UNCHANGED <<file, asked>>
    BY <1>6 DEF SaveIndex, Die
  <2>2. call'[p].pc = "idle" /\ \A q \in Callers \ {p} : call'[q] = call[q]
    BY <2>1 DEF CacheInv, CallsAreTyped, NoCall
  <2>3. /\ troubled' \in {troubled, troubled \cup {call[p].key}}
        /\ call[p].pc \in {"truncate", "write"} => call[p].key \in troubled'
    BY <1>6 DEF SaveIndex, Die
  <2> QED
    BY <2>1, <2>2, <2>3, LeavingKeepsOnce
<1>7. CASE UNCHANGED cacheVars
  BY <1>7 DEF cacheVars, OnceInv, PaidOnce
<1> QED
  BY <1>1, <1>2, <1>3, <1>4, <1>5, <1>6, <1>7 DEF CacheNext

\* What a caller is given is one whole answer that was computed for its key, and
\* none is computed twice without trouble, for any number of keys and of processes
\* that write the same file and die while they do (get_or_compute, store_raw).
THEOREM CacheStaysSound == CacheSpec => []CacheIsSound
<1>1. CacheInv /\ PaidOnce => CacheIsSound
  BY DEF CacheInv, CacheIsSound
<1>2. CacheInit => OnceInv /\ PaidOnce
  BY OnceStarts
<1>3. CacheInv /\ OnceInv /\ PaidOnce /\ [CacheNext]_cacheVars => OnceInv' /\ PaidOnce'
  BY OnceKept
<1> QED
  BY CacheStarts, CacheSteps, <1>1, <1>2, <1>3, PTL DEF CacheSpec

-----------------------------------------------------------------------------
(* The assets of a benchmark.                                               *)

\* The shape of the benchmarks: who is at a file has one to be at.
BenchesAreWhole ==
  /\ DOMAIN bench = Benches
  /\ \A b \in Benches :
       /\ DOMAIN bench[b] = {"pc", "left", "task", "outcomes"}
       /\ bench[b].pc \in {"add", "diff", "write"} => bench[b].left # <<>>
       /\ DOMAIN bench[b].task = Prs
       /\ \A p \in Prs : DOMAIN bench[b].task[p] = {"pc", "diff", "root", "excused"}

FilesAreWhole == DOMAIN worktree = Prs /\ DOMAIN diff = Prs

\* Only once a benchmark is through with its own preparation do its tasks look.
TasksComeLast ==
  \A b \in Benches, p \in Prs :
    bench[b].task[p].pc \in {"diff", "root"} => bench[b].pc = "review"

Makes(b, what, p) ==
  /\ bench[b].left # <<>> /\ Now(b) = p
  /\ At_(b, IF what = "diff" THEN "write" ELSE "add")

\* What is half made has a maker, or had one that stopped.
HalvesHaveMakers ==
  \A p \in Prs :
    /\ diff[p] = "part" => <<"diff", p>> \in short \/ \E c \in Benches : Makes(c, "diff", p)
    /\ worktree[p] = "part" =>
         <<"worktree", p>> \in short \/ \E c \in Benches : Makes(c, "worktree", p)

AssetInv ==
  BenchesAreWhole /\ FilesAreWhole /\ TasksComeLast /\ HalvesHaveMakers /\ AssetsAreReady

\* Nothing is fetched yet.
LEMMA AssetsStart == AssetInit => AssetInv
  BY DEF AssetInit, AssetInv, BenchesAreWhole, FilesAreWhole, TasksComeLast, HalvesHaveMakers,
         AssetsAreReady, Resting, NoTask

-----------------------------------------------------------------------------
(* The preparation.                                                        *)

\* A benchmark goes on without touching its tasks.
LEMMA GoOnKeepsTasks ==
  ASSUME AssetInv, NEW b \in Benches, NEW stop, NEW left, GoOn(b, stop, left),
         bench[b].pc # "review", stop \in {"add", "diff", "write"} => left # <<>>
  PROVE  /\ BenchesAreWhole' /\ TasksComeLast' /\ AssetsAreReady'
         /\ bench'[b].pc = stop /\ bench'[b].left = left
         /\ \A c \in Benches \ {b} : bench'[c] = bench[c]
<1> USE DEF AssetInv
<1>1. bench' = [bench EXCEPT ![b] = [bench[b] EXCEPT !.pc = stop, !.left = left]]
  BY DEF GoOn, BenchesAreWhole
<1>2. /\ bench'[b].pc = stop /\ bench'[b].left = left /\ bench'[b].task = bench[b].task
      /\ DOMAIN bench'[b] = {"pc", "left", "task", "outcomes"}
      /\ \A c \in Benches \ {b} : bench'[c] = bench[c]
      /\ DOMAIN bench' = Benches
  BY <1>1 DEF BenchesAreWhole
<1>3. BenchesAreWhole'
  BY <1>2 DEF BenchesAreWhole
<1>4. TasksComeLast'
  BY <1>2 DEF TasksComeLast
<1>5. AssetsAreReady'
  BY <1>2 DEF AssetsAreReady
<1> QED
  BY <1>2, <1>3, <1>4, <1>5

\* A step that makes nothing, of a benchmark that was making nothing.
LEMMA PrepareStep ==
  ASSUME AssetInv, NEW b \in Benches, NEW stop, NEW left, GoOn(b, stop, left),
         bench[b].pc \notin {"review", "add", "write"}, stop \notin {"add", "diff", "write"},
         UNCHANGED <<worktree, diff, short>>
  PROVE  AssetInv'
<1>1. /\ BenchesAreWhole' /\ TasksComeLast' /\ AssetsAreReady'
      /\ \A c \in Benches \ {b} : bench'[c] = bench[c]
  BY GoOnKeepsTasks
<1>2. \A c \in Benches, what \in {"diff", "worktree"}, p \in Prs :
        Makes(c, what, p) => Makes(c, what, p)'
  BY <1>1 DEF Makes, At_, Now
<1>3. HalvesHaveMakers'
  BY <1>2 DEF AssetInv, HalvesHaveMakers
<1> QED
  BY <1>1, <1>3 DEF AssetInv, FilesAreWhole

\* A clone is started, made and asked for its branches, or is not.
LEMMA FetchSteps ==
  ASSUME AssetInv, NEW b \in Benches,
         StartBench(b) \/ CloneBegins(b) \/ CloneEnds(b) \/ FetchRef(b) \/ ListRefs(b)
  PROVE  AssetInv'
<1>1. /\ UNCHANGED <<worktree, diff, short>>
      /\ bench[b].pc \in {"idle", "clone", "cloning", "fetch", "list"}
  BY DEF StartBench, CloneBegins, CloneEnds, FetchRef, ListRefs, files, At_
<1>2. \E stop \in {"clone", "cloning", "fetch", "list", "extract"} : \E left : GoOn(b, stop, left)
  BY DEF StartBench, CloneBegins, CloneEnds, FetchRef, ListRefs
<1> QED
  BY <1>1, <1>2, PrepareStep

\* A diff is taken from a clone, or a worktree is added to it.
LEMMA ExtractStep ==
  ASSUME AssetInv, NEW b \in Benches, Extract(b)
  PROVE  AssetInv'
<1> USE DEF AssetInv
<1> DEFINE p == Now(b)
<1>1. /\ bench[b].pc = "extract" /\ bench[b].left # <<>> /\ UNCHANGED <<diff, short>>
  BY DEF Extract, At_
<1>2. CASE GoOn(b, "extract", Next_(b)) /\ UNCHANGED worktree
  BY <1>1, <1>2, PrepareStep
<1>3. CASE /\ worktree' = [worktree EXCEPT ![p] = "part"]
           /\ GoOn(b, "add", bench[b].left)
  <2>1. /\ BenchesAreWhole' /\ TasksComeLast' /\ AssetsAreReady'
        /\ bench'[b].pc = "add" /\ bench'[b].left = bench[b].left
        /\ \A c \in Benches \ {b} : bench'[c] = bench[c]
    BY <1>1, <1>3, GoOnKeepsTasks
  <2>2. ASSUME NEW q, q = p PROVE Makes(b, "worktree", q)'
    BY <1>1, <2>1, <2>2 DEF Makes, At_, Now
  <2>3. \A c \in Benches, what \in {"diff", "worktree"}, q \in Prs :
          Makes(c, what, q) => Makes(c, what, q)'
    BY <1>1, <2>1 DEF Makes, At_, Now
  <2>4. ASSUME NEW q \in Prs PROVE worktree'[q] = "part" => q = p \/ worktree[q] = "part"
    BY <1>3 DEF FilesAreWhole
  <2>5. ASSUME NEW q \in Prs, worktree'[q] = "part"
        PROVE  <<"worktree", q>> \in short' \/ \E c \in Benches : Makes(c, "worktree", q)'
    <3>1. CASE q = p
      BY <2>2, <3>1
    <3>2. CASE worktree[q] = "part"
      BY <1>1, <2>3, <3>2 DEF HalvesHaveMakers
    <3> QED
      BY <2>4, <2>5, <3>1, <3>2
  <2>6. ASSUME NEW q \in Prs, diff'[q] = "part"
        PROVE  <<"diff", q>> \in short' \/ \E c \in Benches : Makes(c, "diff", q)'
    BY <1>1, <2>3, <2>6 DEF HalvesHaveMakers
  <2>7. HalvesHaveMakers'
    BY <2>5, <2>6 DEF HalvesHaveMakers
  <2> QED
    BY <1>1, <1>3, <2>1, <2>7 DEF FilesAreWhole
<1>4. CASE GoOn(b, "diff", bench[b].left) /\ UNCHANGED worktree
  <2>1. /\ BenchesAreWhole' /\ TasksComeLast' /\ AssetsAreReady'
        /\ \A c \in Benches \ {b} : bench'[c] = bench[c]
    BY <1>1, <1>4, GoOnKeepsTasks
  <2>2. \A c \in Benches, what \in {"diff", "worktree"}, q \in Prs :
          Makes(c, what, q) => Makes(c, what, q)'
    BY <1>1, <2>1 DEF Makes, At_, Now
  <2>3. HalvesHaveMakers'
    BY <1>1, <1>4, <2>2 DEF HalvesHaveMakers
  <2> QED
    BY <1>1, <1>4, <2>1, <2>3 DEF FilesAreWhole
<1> QED
  BY <1>2, <1>3, <1>4 DEF Extract

\* git worktree add ends, and with it what was half made of this worktree.
LEMMA WorktreeAddedStep ==
  ASSUME AssetInv, NEW b \in Benches, WorktreeAdded(b)
  PROVE  AssetInv'
<1> USE DEF AssetInv
<1>1. /\ bench[b].pc = "add" /\ bench[b].left # <<>> /\ UNCHANGED <<diff, short>>
  BY DEF WorktreeAdded, At_, BenchesAreWhole
<1>2. PICK w, stop, left :
        /\ w \in {"whole", "none"} /\ stop \in {"diff", "extract"}
        /\ worktree' = [worktree EXCEPT ![Now(b)] = w]
        /\ GoOn(b, stop, left) /\ (stop = "diff" => left = bench[b].left)
  BY DEF WorktreeAdded
<1>3. /\ BenchesAreWhole' /\ TasksComeLast' /\ AssetsAreReady'
      /\ \A c \in Benches \ {b} : bench'[c] = bench[c]
  BY <1>1, <1>2, GoOnKeepsTasks
<1>4. \A c \in Benches, q \in Prs : Makes(c, "diff", q) => Makes(c, "diff", q)'
  BY <1>1, <1>3 DEF Makes, At_, Now
<1>5. \A c \in Benches, q \in Prs :
        q # Now(b) /\ Makes(c, "worktree", q) => Makes(c, "worktree", q)'
  BY <1>3 DEF Makes, At_, Now
<1>6. ASSUME NEW q \in Prs PROVE worktree'[q] = "part" => q # Now(b) /\ worktree[q] = "part"
  BY <1>2 DEF FilesAreWhole
<1>7. HalvesHaveMakers'
  BY <1>1, <1>4, <1>5, <1>6 DEF HalvesHaveMakers
<1> QED
  BY <1>1, <1>2, <1>3, <1>7 DEF FilesAreWhole

\* The diff is emptied before anything is written.
LEMMA GitDiffStep ==
  ASSUME AssetInv, NEW b \in Benches, GitDiff(b)
  PROVE  AssetInv'
<1> USE DEF AssetInv
<1>1. /\ bench[b].pc = "diff" /\ bench[b].left # <<>> /\ UNCHANGED <<worktree, short>>
  BY DEF GitDiff, At_, BenchesAreWhole
<1>2. CASE GoOn(b, "extract", Next_(b)) /\ UNCHANGED diff
  BY <1>1, <1>2, PrepareStep
<1>3. CASE diff' = [diff EXCEPT ![Now(b)] = "empty"] /\ GoOn(b, "write", bench[b].left)
  <2>1. /\ BenchesAreWhole' /\ TasksComeLast' /\ AssetsAreReady'
        /\ \A c \in Benches \ {b} : bench'[c] = bench[c]
    BY <1>1, <1>3, GoOnKeepsTasks
  <2>2. \A c \in Benches, what \in {"diff", "worktree"}, q \in Prs :
          Makes(c, what, q) => Makes(c, what, q)'
    BY <1>1, <2>1 DEF Makes, At_, Now
  <2>3. ASSUME NEW q \in Prs PROVE diff'[q] = "part" => diff[q] = "part"
    BY <1>3 DEF FilesAreWhole
  <2>4. HalvesHaveMakers'
    BY <1>1, <2>2, <2>3 DEF HalvesHaveMakers
  <2> QED
    BY <1>1, <1>3, <2>1, <2>4 DEF FilesAreWhole
<1> QED
  BY <1>2, <1>3 DEF GitDiff

\* Part of the diff is written, and its maker stays or is noted; or all of it.
LEMMA WriteDiffStep ==
  ASSUME AssetInv, NEW b \in Benches, WriteDiff(b)
  PROVE  AssetInv'
<1> USE DEF AssetInv
<1>1. /\ bench[b].pc = "write" /\ bench[b].left # <<>> /\ UNCHANGED worktree
  BY DEF WriteDiff, At_, BenchesAreWhole
<1>2. CASE diff' = [diff EXCEPT ![Now(b)] = "part"] /\ UNCHANGED <<bench, short>>
  <2>1. Makes(b, "diff", Now(b))
    BY <1>1 DEF Makes, At_
  <2>2. ASSUME NEW q \in Prs PROVE diff'[q] = "part" => q = Now(b) \/ diff[q] = "part"
    BY <1>2 DEF FilesAreWhole
  <2>3. HalvesHaveMakers'
    BY ZenonT(40), <1>1, <1>2, <2>1, <2>2 DEF HalvesHaveMakers, Makes, At_, Now
  <2> QED
    BY <1>1, <1>2, <2>3 DEF FilesAreWhole, BenchesAreWhole, TasksComeLast, AssetsAreReady
<1>3. CASE /\ \/ /\ diff' = [diff EXCEPT ![Now(b)] = "part"]
                 /\ short' = short \cup {<<"diff", Now(b)>>}
              \/ diff' = [diff EXCEPT ![Now(b)] = "whole"] /\ UNCHANGED short
           /\ \E left : GoOn(b, "extract", left)
  <2>1. /\ BenchesAreWhole' /\ TasksComeLast' /\ AssetsAreReady'
        /\ \A c \in Benches \ {b} : bench'[c] = bench[c]
    BY <1>1, <1>3, GoOnKeepsTasks
  <2>2. \A c \in Benches, q \in Prs : Makes(c, "worktree", q) => Makes(c, "worktree", q)'
    BY <1>1, <2>1 DEF Makes, At_, Now
  <2>3. \A c \in Benches, q \in Prs :
          q # Now(b) /\ Makes(c, "diff", q) => Makes(c, "diff", q)'
    BY <2>1 DEF Makes, At_, Now
  <2>4. ASSUME NEW q \in Prs, diff'[q] = "part"
        PROVE  <<"diff", q>> \in short' \/ (q # Now(b) /\ diff[q] = "part")
    BY <1>3, <2>4 DEF FilesAreWhole
  <2>5. short \subseteq short'
    BY <1>3
  <2>6. HalvesHaveMakers'
    BY <1>1, <2>2, <2>3, <2>4, <2>5 DEF HalvesHaveMakers
  <2> QED
    BY <1>1, <1>3, <2>1, <2>6 DEF FilesAreWhole
<1> QED
  BY <1>2, <1>3 DEF WriteDiff

-----------------------------------------------------------------------------
(* The reviews.                                                            *)

\* A step of one task of a benchmark that is reviewing.
LEMMA TaskStep ==
  ASSUME AssetInv, NEW b \in Benches, NEW p \in Prs, NEW t, Step(b, p, t),
         bench[b].pc = "review", DOMAIN t = {"pc", "diff", "root", "excused"}, t.excused,
         UNCHANGED <<files, short>>
  PROVE  AssetInv'
<1> USE DEF AssetInv
<1>1. bench' = [bench EXCEPT ![b] = [bench[b] EXCEPT !.task = [bench[b].task EXCEPT ![p] = t]]]
  BY DEF Step, BenchesAreWhole
<1>2. /\ bench'[b].pc = bench[b].pc /\ bench'[b].left = bench[b].left
      /\ bench'[b].task = [bench[b].task EXCEPT ![p] = t]
      /\ DOMAIN bench'[b] = {"pc", "left", "task", "outcomes"}
      /\ DOMAIN bench' = Benches
      /\ \A c \in Benches \ {b} : bench'[c] = bench[c]
  BY <1>1 DEF BenchesAreWhole
<1>3. BenchesAreWhole'
  BY <1>2 DEF BenchesAreWhole
<1>4. TasksComeLast'
  BY <1>2 DEF TasksComeLast
<1>5. AssetsAreReady'
  <2>1. \A c \in Benches, q \in Prs :
          bench'[c].task[q] = t \/ bench'[c].task[q] = bench[c].task[q]
    BY <1>2 DEF BenchesAreWhole
  <2>2. t.excused /\ \A c \in Benches, q \in Prs : bench[c].task[q].excused
    BY DEF AssetsAreReady
  <2>3. \A c \in Benches, q \in Prs : bench'[c].task[q].excused
    BY <2>1, <2>2, Zenon
  <2> QED
    BY <2>3 DEF AssetsAreReady
<1>6. \A c \in Benches, what \in {"diff", "worktree"}, q \in Prs :
        Makes(c, what, q) => Makes(c, what, q)'
  BY <1>2 DEF Makes, At_, Now
<1>7. HalvesHaveMakers'
  BY <1>6 DEF HalvesHaveMakers, files
<1> QED
  BY <1>3, <1>4, <1>5, <1>7 DEF FilesAreWhole, files

\* The pull requests of a benchmark are started.
LEMMA SpawnPrsStep ==
  ASSUME AssetInv, NEW b \in Benches, SpawnPrs(b)
  PROVE  AssetInv'
<1> USE DEF AssetInv
<1> DEFINE tasks == [p \in Prs |-> IF p \in ToSet(Chosen[b]) THEN [NoTask EXCEPT !.pc = "diff"]
                                                             ELSE NoTask]
<1>1. /\ bench[b].pc = "extract" /\ UNCHANGED <<worktree, diff, short>>
      /\ bench' = [bench EXCEPT ![b].pc = "review", ![b].task = tasks]
  BY DEF SpawnPrs, At_, files
<1>2. /\ DOMAIN bench' = Benches
      /\ \A c \in Benches \ {b} : bench'[c] = bench[c]
      /\ bench'[b].pc = "review" /\ bench'[b].task = tasks
      /\ DOMAIN bench'[b] = {"pc", "left", "task", "outcomes"}
  BY <1>1 DEF BenchesAreWhole
<1>3. /\ DOMAIN tasks = Prs
      /\ \A p \in Prs : DOMAIN tasks[p] = {"pc", "diff", "root", "excused"} /\ tasks[p].excused
  BY DEF NoTask
<1> HIDE DEF tasks
<1>4. BenchesAreWhole'
  BY <1>2, <1>3 DEF BenchesAreWhole
<1>5. TasksComeLast'
  BY <1>2 DEF TasksComeLast
<1>6. AssetsAreReady'
  BY <1>2, <1>3 DEF AssetsAreReady
<1>7. \A c \in Benches, what \in {"diff", "worktree"}, q \in Prs :
        Makes(c, what, q) => Makes(c, what, q)'
  BY <1>1, <1>2 DEF Makes, At_, Now
<1>8. HalvesHaveMakers'
  BY <1>1, <1>7 DEF HalvesHaveMakers
<1> QED
  BY <1>1, <1>4, <1>5, <1>6, <1>8 DEF FilesAreWhole

\* Who makes what b reviews is another benchmark, as b is through with it.
LEMMA HalfIsBeingMade ==
  ASSUME AssetInv, NEW b \in Benches, NEW p \in Prs, bench[b].pc = "review"
  PROVE  /\ diff[p] = "part" => Being("diff", p, b)
         /\ worktree[p] = "part" => Being("worktree", p, b)
<1>1. \A what \in {"diff", "worktree"} : ~ Makes(b, what, p)
  BY DEF Makes, At_
<1> QED
  BY <1>1 DEF AssetInv, HalvesHaveMakers, Makes, Being

\* A diff is read, or fetched where there is none.
LEMMA ReadDiffStep ==
  ASSUME AssetInv, NEW b \in Benches, NEW p \in Prs, ReadDiff(b, p)
  PROVE  AssetInv'
<1> DEFINE t == bench[b].task[p]
<1>1. /\ t.pc = "diff" /\ UNCHANGED <<files, short>>
      /\ DOMAIN t = {"pc", "diff", "root", "excused"} /\ t.excused
  BY DEF ReadDiff, AssetInv, BenchesAreWhole, AssetsAreReady
<1>2. bench[b].pc = "review"
  BY <1>1 DEF AssetInv, TasksComeLast
<1>3. CASE diff[p] \in {"part", "whole"}
  <2> DEFINE u == [t EXCEPT !.pc = "root", !.diff = diff[p],
                            !.excused = diff[p] = "whole" \/ Being("diff", p, b)]
  <2>1. Step(b, p, u)
    BY <1>3 DEF ReadDiff
  <2>2. DOMAIN u = {"pc", "diff", "root", "excused"}
    BY <1>1
  <2>3. diff[p] = "whole" \/ Being("diff", p, b)
    BY <1>2, <1>3, HalfIsBeingMade
  <2>4. u.excused
    BY <1>1, <2>3
  <2> HIDE DEF u
  <2> QED
    BY <1>1, <1>2, <2>1, <2>2, <2>4, TaskStep
<1>4. CASE diff[p] \notin {"part", "whole"}
  <2>1. PICK u \in {[t EXCEPT !.pc = "root", !.diff = "live"], [t EXCEPT !.pc = "failed"]} :
          Step(b, p, u)
    BY <1>4 DEF ReadDiff
  <2>2. DOMAIN u = {"pc", "diff", "root", "excused"} /\ u.excused
    BY <1>1, <2>1
  <2> QED
    BY <1>1, <1>2, <2>1, <2>2, TaskStep
<1> QED
  BY <1>3, <1>4

\* A worktree is the root of the review, if there is one.
LEMMA FindRootStep ==
  ASSUME AssetInv, NEW b \in Benches, NEW p \in Prs, FindRoot(b, p)
  PROVE  AssetInv'
<1> DEFINE t == bench[b].task[p]
<1>1. /\ t.pc = "root" /\ UNCHANGED <<files, short>>
      /\ DOMAIN t = {"pc", "diff", "root", "excused"} /\ t.excused
  BY DEF FindRoot, AssetInv, BenchesAreWhole, AssetsAreReady
<1>2. bench[b].pc = "review"
  BY <1>1 DEF AssetInv, TasksComeLast
<1>3. PICK stop \in {"reviewed", "failed"} :
        Step(b, p, [t EXCEPT !.pc = stop, !.root = worktree[p],
                             !.excused = @ /\ (worktree[p] # "part" \/ Being("worktree", p, b))])
  BY DEF FindRoot
<1> DEFINE u == [t EXCEPT !.pc = stop, !.root = worktree[p],
                          !.excused = @ /\ (worktree[p] # "part" \/ Being("worktree", p, b))]
<1>4. DOMAIN u = {"pc", "diff", "root", "excused"}
  BY <1>1
<1>5. worktree[p] # "part" \/ Being("worktree", p, b)
  BY <1>2, HalfIsBeingMade
<1>6. u.excused
  BY <1>1, <1>5
<1>7. Step(b, p, u)
  BY <1>3
<1> HIDE DEF u
<1> QED
  BY <1>1, <1>2, <1>4, <1>6, <1>7, TaskStep

\* The outcomes do not matter here, and a task that is over looks at nothing.
LEMMA OverStep ==
  ASSUME AssetInv, NEW b \in Benches, SortOutcomes(b) \/ \E p \in Prs : JoinPr(b, p)
  PROVE  AssetInv'
<1> USE DEF AssetInv
<1>1. UNCHANGED <<worktree, diff, short>>
  BY DEF SortOutcomes, JoinPr, files
<1>2. /\ DOMAIN bench' = Benches
      /\ \A c \in Benches \ {b} : bench'[c] = bench[c]
      /\ DOMAIN bench'[b] = {"pc", "left", "task", "outcomes"}
      /\ bench'[b].left = bench[b].left
      /\ bench'[b].pc = bench[b].pc \/ (bench[b].pc = "review" /\ bench'[b].pc = "done")
  <2>1. CASE SortOutcomes(b)
    <3>1. PICK o : bench' = [bench EXCEPT ![b].pc = "done", ![b].outcomes = o]
      BY <2>1, Zenon DEF SortOutcomes
    <3>2. bench[b].pc = "review"
      BY <2>1, Zenon DEF SortOutcomes, At_
    <3> QED
      BY <3>1, <3>2 DEF BenchesAreWhole
  <2>2. ASSUME NEW p \in Prs, JoinPr(b, p)
        PROVE  /\ DOMAIN bench' = Benches
               /\ \A c \in Benches \ {b} : bench'[c] = bench[c]
               /\ DOMAIN bench'[b] = {"pc", "left", "task", "outcomes"}
               /\ bench'[b].left = bench[b].left
               /\ bench'[b].pc = bench[b].pc
    BY <2>2 DEF JoinPr, BenchesAreWhole
  <2> QED
    BY <2>1, <2>2
<1>3. /\ DOMAIN bench'[b].task = Prs
      /\ \A p \in Prs :
           /\ DOMAIN bench'[b].task[p] = {"pc", "diff", "root", "excused"}
           /\ bench'[b].task[p].excused = bench[b].task[p].excused
           /\ bench'[b].task[p].pc \in {"diff", "root"} =>
                bench[b].task[p].pc \in {"diff", "root"} /\ bench'[b].pc = bench[b].pc
  <2>1. CASE SortOutcomes(b)
    <3>1. PICK o : bench' = [bench EXCEPT ![b].pc = "done", ![b].outcomes = o]
      BY <2>1, Zenon DEF SortOutcomes
    <3>2. \A p \in Prs : bench[b].task[p].pc \in {"none", "joined", "dropped"}
      BY <2>1, Zenon DEF SortOutcomes
    <3>3. bench'[b].task = bench[b].task
      BY <3>1 DEF BenchesAreWhole
    <3> QED
      BY <3>2, <3>3 DEF BenchesAreWhole
  <2>2. ASSUME NEW q \in Prs, JoinPr(b, q)
        PROVE  /\ DOMAIN bench'[b].task = Prs
               /\ \A p \in Prs :
                    /\ DOMAIN bench'[b].task[p] = {"pc", "diff", "root", "excused"}
                    /\ bench'[b].task[p].excused = bench[b].task[p].excused
                    /\ bench'[b].task[p].pc \in {"diff", "root"} =>
                         bench[b].task[p].pc \in {"diff", "root"} /\ bench'[b].pc = bench[b].pc
    <3>1. PICK stop \in {"joined", "dropped"} :
            /\ bench'[b].task = [bench[b].task EXCEPT ![q] = [bench[b].task[q] EXCEPT !.pc = stop]]
            /\ bench'[b].pc = bench[b].pc
      BY <2>2 DEF JoinPr, BenchesAreWhole
    <3> QED
      BY <3>1 DEF BenchesAreWhole
  <2> QED
    BY <2>1, <2>2
<1>4. BenchesAreWhole'
  BY <1>2, <1>3 DEF BenchesAreWhole
<1>5. TasksComeLast'
  BY <1>2, <1>3 DEF TasksComeLast
<1>6. AssetsAreReady'
  <2>1. \A c \in Benches, p \in Prs : bench'[c].task[p].excused = bench[c].task[p].excused
    BY <1>2, <1>3
  <2> QED
    BY <2>1, Zenon DEF AssetsAreReady
<1>7. \A c \in Benches, what \in {"diff", "worktree"}, q \in Prs :
        Makes(c, what, q) => Makes(c, what, q)'
  BY <1>2 DEF Makes, At_, Now
<1>8. HalvesHaveMakers'
  BY <1>1, <1>7 DEF HalvesHaveMakers
<1> QED
  BY <1>1, <1>4, <1>5, <1>6, <1>8 DEF FilesAreWhole

-----------------------------------------------------------------------------
\* Whoever was making something stops, and all tasks with them.
LEMMA KilledStep == AssetInv /\ Killed => AssetInv'
<1> SUFFICES ASSUME AssetInv, Killed PROVE AssetInv'
  OBVIOUS
<1> USE DEF AssetInv
<1>1. /\ bench' = [b \in Benches |-> Resting] /\ UNCHANGED <<worktree, diff>>
      /\ short' = short \cup {x \in {"diff", "worktree"} \X Prs : \E b \in Benches : Makes(b, x[1], x[2])}
  BY DEF Killed, files, Makes
<1>2. BenchesAreWhole' /\ TasksComeLast' /\ AssetsAreReady'
  BY <1>1 DEF BenchesAreWhole, TasksComeLast, AssetsAreReady, Resting, NoTask
<1>3. \A what \in {"diff", "worktree"}, p \in Prs :
        <<what, p>> \in short \/ (\E b \in Benches : Makes(b, what, p)) => <<what, p>> \in short'
  BY <1>1
<1>4. HalvesHaveMakers'
  BY <1>1, <1>3 DEF HalvesHaveMakers
<1> QED
  BY <1>1, <1>2, <1>4 DEF FilesAreWhole

\* No step of the assets leaves the invariant.
LEMMA AssetSteps == AssetInv /\ [AssetNext]_assetVars => AssetInv'
<1> SUFFICES ASSUME AssetInv, [AssetNext]_assetVars PROVE AssetInv'
  OBVIOUS
<1>1. CASE Killed
  BY <1>1, KilledStep
<1>2. ASSUME NEW b \in Benches,
             \/ StartBench(b) \/ CloneBegins(b) \/ CloneEnds(b) \/ FetchRef(b) \/ ListRefs(b)
             \/ Extract(b) \/ WorktreeAdded(b) \/ GitDiff(b) \/ WriteDiff(b)
      PROVE  AssetInv'
  BY <1>2, FetchSteps, ExtractStep, WorktreeAddedStep, GitDiffStep, WriteDiffStep
<1>3. ASSUME NEW b \in Benches,
             SpawnPrs(b) \/ SortOutcomes(b) \/ \E p \in Prs : ReadDiff(b, p) \/ FindRoot(b, p) \/ JoinPr(b, p)
      PROVE  AssetInv'
  BY <1>3, SpawnPrsStep, ReadDiffStep, FindRootStep, OverStep
<1>4. CASE UNCHANGED assetVars
  BY <1>4 DEF assetVars, files, AssetInv, BenchesAreWhole, FilesAreWhole, TasksComeLast,
              HalvesHaveMakers, Makes, At_, Now, AssetsAreReady
<1> QED
  BY <1>1, <1>2, <1>3, <1>4 DEF AssetNext

-----------------------------------------------------------------------------
\* However many benchmarks share the directory and whenever the server is
\* killed, half a diff or half a worktree is reviewed only while another
\* benchmark is making it or after its maker stopped (prepare_benchmark_assets,
\* load_cached_benchmark_diff).
THEOREM HalvesAreExcused == AssetSpec => []AssetsAreReady
<1>1. AssetInv => AssetsAreReady
  BY DEF AssetInv
<1> QED
  BY AssetsStart, AssetSteps, <1>1, PTL DEF AssetSpec

-----------------------------------------------------------------------------
(* The rows the derives make.                                               *)

\* The entities, field by field: what is read of them is whether a field is a
\* column, and what stands for it when it is not.
LEMMA ScalarAttrs ==
  /\ \A n, t : IsScalar(Field(n, t, {}))
  /\ \A n, t : IsScalar(Field(n, t, {"belongs_to"}))
  /\ \A n, t : IsScalar(Field(n, t, {"belongs_to", "nullable"}))
  /\ \A n, t : IsScalar(Field(n, t, {"primary_key", "auto_increment"}))
  /\ \A n, t : ~IsScalar(Field(n, t, {"has_many"}))
  /\ \A n, t : ~IsScalar(Field(n, t, {"json"}))
  /\ \A n, t : ~IsScalar(Field(n, t, {"flatten"}))
  BY DEF Field, IsScalar

\* A field has the name it is given.
LEMMA FieldNames == \A n, t, a : Field(n, t, a).name = n
  BY DEF Field

\* The columns of each table (scalar_columns).
LEMMA ScalarsOfEntities ==
  /\ Scalars("Review") = {"id", "status"}
  /\ Scalars("AgentSession") = {"id", "review_id", "model_name"}
  /\ Scalars("AgentTurn") = {"id", "session_id", "turn_index"}
  /\ Scalars("PrResult") = {"id", "benchmark_id"}
  /\ Scalars("Finding") = {"id", "pr_result_id", "file", "message"}
<1>1. Scalars("Review") = {"id", "status"}
  BY ScalarAttrs, FieldNames DEF Scalars, Entities
<1>2. Scalars("AgentSession") = {"id", "review_id", "model_name"}
  <2>1. \A f \in Entities["AgentSession"] : IsScalar(f) => f.name \in {"id", "review_id", "model_name"}
    BY ScalarAttrs, FieldNames DEF Entities
  <2> DEFINE Id == Field("id", "MagicTypeId", {})
             Of == Field("review_id", "Option", {"belongs_to"})
             Model == Field("model_name", "String", {})
  <2>2. IsScalar(Id) /\ IsScalar(Of) /\ IsScalar(Model)
    BY ScalarAttrs
  <2>3. Id.name = "id" /\ Of.name = "review_id" /\ Model.name = "model_name"
    BY FieldNames
  <2>4. {Id, Of, Model} \subseteq Entities["AgentSession"]
    BY DEF Entities
  <2> HIDE DEF Id, Of, Model
  <2> QED BY <2>1, <2>2, <2>3, <2>4 DEF Scalars
<1>3. Scalars("AgentTurn") = {"id", "session_id", "turn_index"}
  <2>1. \A f \in Entities["AgentTurn"] : IsScalar(f) => f.name \in {"id", "session_id", "turn_index"}
    BY ScalarAttrs, FieldNames DEF Entities, SurrogateKey
  <2> DEFINE Of == Field("session_id", "MagicTypeId", {"belongs_to"})
             At == Field("turn_index", "i32", {})
  <2>2. IsScalar(SurrogateKey) /\ IsScalar(Of) /\ IsScalar(At)
    BY ScalarAttrs DEF SurrogateKey
  <2>3. SurrogateKey.name = "id" /\ Of.name = "session_id" /\ At.name = "turn_index"
    BY FieldNames DEF SurrogateKey
  <2>4. {SurrogateKey, Of, At} \subseteq Entities["AgentTurn"]
    BY DEF Entities
  <2> HIDE DEF Of, At
  <2> QED BY <2>1, <2>2, <2>3, <2>4 DEF Scalars
<1>4. Scalars("PrResult") = {"id", "benchmark_id"}
  BY ScalarAttrs, FieldNames DEF Scalars, Entities
<1>5. Scalars("Finding") = {"id", "pr_result_id", "file", "message"}
  <2>1. \A f \in Entities["Finding"] : f.name \in {"id", "pr_result_id", "file", "message"}
    BY FieldNames DEF Entities, SurrogateKey
  <2> DEFINE Of == Field("pr_result_id", "String", {"belongs_to", "nullable"})
             File == Field("file", "Option", {})
             Text == Field("message", "String", {})
  <2>2. IsScalar(SurrogateKey) /\ IsScalar(Of) /\ IsScalar(File) /\ IsScalar(Text)
    BY ScalarAttrs DEF SurrogateKey
  <2>3. /\ SurrogateKey.name = "id" /\ Of.name = "pr_result_id"
        /\ File.name = "file" /\ Text.name = "message"
    BY FieldNames DEF SurrogateKey
  <2>4. {SurrogateKey, Of, File, Text} \subseteq Entities["Finding"]
    BY DEF Entities
  <2> HIDE DEF Of, File, Text
  <2> QED BY <2>1, <2>2, <2>3, <2>4 DEF Scalars
<1> QED BY <1>1, <1>2, <1>3, <1>4, <1>5

\* The fields of each entity.
LEMMA NamesOfEntities ==
  /\ Names(Entities["Review"]) =
       {"id", "agent_sessions", "analytics", "duration", "error_message", "status", "metadata"}
  /\ Names(Entities["AgentSession"]) = {"id", "review_id", "model_name", "usage", "turns"}
  /\ Names(Entities["AgentTurn"]) = {"id", "session_id", "turn_index", "messages"}
  /\ Names(Entities["PrResult"]) = {"id", "benchmark_id", "golden_comments", "findings"}
  /\ Names(Entities["Finding"]) = {"id", "pr_result_id", "file", "message"}
  BY DEF Names, Entities, Field, SurrogateKey

\* The fields of a review, by name.
LEMMA FieldsOfReview ==
  LET F(n) == FieldOf(Entities["Review"], n) IN
  /\ F("id") = Field("id", "MagicTypeId", {})
  /\ F("agent_sessions") = Field("agent_sessions", "Vec", {"has_many"})
  /\ F("analytics") = Field("analytics", "Option", {"json"})
  /\ F("duration") = Field("duration", "Option", {"json"})
  /\ F("error_message") = Field("error_message", "Option", {"json"})
  /\ F("status") = Field("status", "ReviewStatus", {})
  /\ F("metadata") = Field("metadata", "ReviewMetadata", {"flatten"})
  BY DEF FieldOf, Entities, Field

\* The fields of a session, by name.
LEMMA FieldsOfSession ==
  LET F(n) == FieldOf(Entities["AgentSession"], n) IN
  /\ F("id") = Field("id", "MagicTypeId", {})
  /\ F("review_id") = Field("review_id", "Option", {"belongs_to"})
  /\ F("model_name") = Field("model_name", "String", {})
  /\ F("usage") = Field("usage", "SessionUsage", {"json"})
  /\ F("turns") = Field("turns", "Vec", {"has_many"})
  BY DEF FieldOf, Entities, Field

\* The fields of a turn, by name.
LEMMA FieldsOfTurn ==
  LET F(n) == FieldOf(Entities["AgentTurn"], n) IN
  /\ F("id") = SurrogateKey
  /\ F("session_id") = Field("session_id", "MagicTypeId", {"belongs_to"})
  /\ F("turn_index") = Field("turn_index", "i32", {})
  /\ F("messages") = Field("messages", "Vec", {"has_many"})
  BY DEF FieldOf, Entities, Field, SurrogateKey

\* The fields of a benchmark's result, by name.
LEMMA FieldsOfResult ==
  LET F(n) == FieldOf(Entities["PrResult"], n) IN
  /\ F("id") = Field("id", "MagicTypeId", {})
  /\ F("benchmark_id") = Field("benchmark_id", "Option", {})
  /\ F("golden_comments") = Field("golden_comments", "Vec", {"has_many"})
  /\ F("findings") = Field("findings", "Vec", {"has_many"})
  BY DEF FieldOf, Entities, Field

\* The fields of a finding, by name.
LEMMA FieldsOfFinding ==
  LET F(n) == FieldOf(Entities["Finding"], n) IN
  /\ F("id") = SurrogateKey
  /\ F("pr_result_id") = Field("pr_result_id", "String", {"belongs_to", "nullable"})
  /\ F("file") = Field("file", "Option", {})
  /\ F("message") = Field("message", "String", {})
  BY DEF FieldOf, Entities, Field, SurrogateKey

\* Only a review has a flattened field.
LEMMA OnlyReviewsAreFlattened ==
  /\ IsFlattened("Review")
  /\ \A e \in DOMAIN Entities \ {"Review"} : ~IsFlattened(e)
<1>1. IsFlattened("Review")
  <2>1. Field("metadata", "ReviewMetadata", {"flatten"}) \in Entities["Review"]
    BY DEF Entities
  <2>2. "flatten" \in Field("metadata", "ReviewMetadata", {"flatten"}).attrs
    BY DEF Field
  <2> QED BY <2>1, <2>2 DEF IsFlattened
<1>2. ~IsFlattened("AgentSession") /\ ~IsFlattened("AgentTurn")
  BY DEF Field, Entities, IsFlattened, SurrogateKey
<1>3. ~IsFlattened("PrResult") /\ ~IsFlattened("Finding")
  BY DEF Field, Entities, IsFlattened, SurrogateKey
<1>4. DOMAIN Entities = {"Review", "AgentSession", "AgentTurn", "PrResult", "Finding"}
  BY DEF Entities
<1> QED BY <1>1, <1>2, <1>3, <1>4

\* What a review stores in its blob.
Analytics == {NULL, "empty", "sessions"}
Durations == {NULL} \cup 0 .. 1
Errors == {NULL, "reason", "launch", "stale"}

\* The blob gives a review back, but for an empty analysis and no duration (serialize_value).
LEMMA ReviewEncodesBack ==
  ASSUME NEW d, d.analytics \in Analytics, d.duration \in Durations, d.error_message \in Errors,
         NEW b, b.duration = NULL, b.analytics = NULL, b.error_message = NULL,
         DOMAIN b = Names(Entities["Review"]), b = [n \in DOMAIN b |-> b[n]]
  PROVE  LET r == DecodeInto("Review", Encode("Review", d), b) IN
           /\ r.analytics = IF d.analytics = "empty" THEN NULL ELSE d.analytics
           /\ r.duration = IF d.duration = 0 THEN NULL ELSE d.duration
           /\ r.error_message = d.error_message
           /\ \A n \in DOMAIN b \ {"analytics", "duration", "error_message"} : r[n] = b[n]
           /\ DOMAIN r = DOMAIN b /\ r = [n \in DOMAIN b |-> r[n]]
<1> DEFINE a == IF d.analytics = NULL THEN "empty" ELSE d.analytics
           t == IF d.duration = NULL THEN 0 ELSE d.duration
           w == [analytics |-> a, duration |-> t, error_message |-> d.error_message]
<1>1. a \in {"empty", "sessions"} /\ t \in 0 .. 1
  BY DEF Analytics, Durations
<1>2. w # NULL
  BY <1>1, RowAssumption DEF RowAssumption, Errors
<1>3. CASE a = "empty" /\ t = 0 /\ d.error_message = NULL
  <2>1. Encode("Review", d) = NULL
    BY <1>3 DEF Encode
  <2>2. DecodeInto("Review", Encode("Review", d), b) = b
    BY <2>1 DEF DecodeInto
  <2>3. d.analytics \in {NULL, "empty"} /\ d.duration \in {NULL, 0}
    BY <1>3, RowAssumption DEF Analytics, Durations, RowAssumption
  <2> QED BY <1>3, <2>2, <2>3, NamesOfEntities
<1>4. CASE ~(a = "empty" /\ t = 0 /\ d.error_message = NULL)
  <2>1. Encode("Review", d) = w
    BY <1>4 DEF Encode
  <2> DEFINE r == DecodeInto("Review", w, b)
  <2>2. r = [b EXCEPT !.analytics = IF a = "empty" THEN NULL ELSE a,
                      !.duration = IF t > 0 THEN t ELSE @,
                      !.error_message = d.error_message]
    BY <1>2 DEF DecodeInto
  <2>3. /\ r.analytics = IF a = "empty" THEN NULL ELSE a
        /\ r.duration = IF t > 0 THEN t ELSE NULL
        /\ r.error_message = d.error_message
        /\ \A n \in DOMAIN b \ {"analytics", "duration", "error_message"} : r[n] = b[n]
        /\ DOMAIN r = DOMAIN b /\ r = [n \in DOMAIN b |-> r[n]]
    <3>1. {"analytics", "duration", "error_message"} \subseteq DOMAIN b
      BY NamesOfEntities
    <3>2. PICK x, y, z : /\ x = (IF a = "empty" THEN NULL ELSE a)
                        /\ y = (IF t > 0 THEN t ELSE NULL) /\ z = d.error_message
      OBVIOUS
    <3>3. PICK q : q = r
      OBVIOUS
    <3>4. q = [b EXCEPT !.analytics = x, !.duration = y, !.error_message = z]
      BY <2>2, <3>2, <3>3
    <3> HIDE DEF r, a, t, w
    <3>5. /\ DOMAIN q = DOMAIN b /\ q = [n \in DOMAIN b |-> q[n]]
          /\ q.analytics = x /\ q.duration = y /\ q.error_message = z
          /\ \A n \in DOMAIN b \ {"analytics", "duration", "error_message"} : q[n] = b[n]
      BY <3>1, <3>4
    <3> QED
      BY <3>2, <3>3, <3>5
  <2>4. r.analytics = IF d.analytics = "empty" THEN NULL ELSE d.analytics
    BY <2>3, RowAssumption DEF Analytics, RowAssumption
  <2>5. r.duration = IF d.duration = 0 THEN NULL ELSE d.duration
    <3>1. CASE d.duration = NULL
      <4>1. t = 0
        BY <3>1
      <4>2. r.duration = NULL
        BY <2>3, <4>1
      <4> QED BY <3>1, <4>2
    <3>2. CASE d.duration # NULL /\ d.duration \in 0 .. 1
      BY <2>3, <3>2
    <3> QED BY <3>1, <3>2 DEF Durations
  <2> QED BY <2>1, <2>3, <2>4, <2>5
<1> QED BY <1>3, <1>4

\* The reviews that are stored: the page and the starter save no others.
ReviewValues ==
  [id : {"id"}, agent_sessions : {<<>>}, analytics : Analytics, duration : Durations,
   error_message : Errors, status : {"Running", "Completed", "Failed"}, metadata : Metadata]

KeptBy(e) == IF e = "Review" THEN ReviewValues ELSE Values(e)

\* What from_row builds before it reads the blob: columns, and defaults for the rest.
ScalarsOf(e, r) ==
  [n \in Names(Entities[e]) |->
     IF n \in Scalars(e) THEN r.scalars[n] ELSE Default(FieldOf(Entities[e], n).type)]

\* Only the surrogate key is the database's to give.
LEMMA EntityKeys ==
  /\ Keyed(SurrogateKey)
  /\ \A n, t : ~Keyed(Field(n, t, {}))
  /\ \A n, t : ~Keyed(Field(n, t, {"belongs_to"}))
  /\ \A n, t : ~Keyed(Field(n, t, {"belongs_to", "nullable"}))
  /\ \A n, t : ~Keyed(Field(n, t, {"json"}))
<1>1. "auto_increment" \in SurrogateKey.attrs
  BY DEF SurrogateKey, Field
<1> QED BY <1>1 DEF Keyed, Field

\* Only has_many fields are children.
LEMMA ChildFields ==
  /\ \A n, t : Field(n, t, {"has_many"}).attrs \cap {"has_many", "has_one"} # {}
  /\ \A n, t : Field(n, t, {}).attrs \cap {"has_many", "has_one"} = {}
  /\ \A n, t : Field(n, t, {"json"}).attrs \cap {"has_many", "has_one"} = {}
  /\ \A n, t : Field(n, t, {"belongs_to"}).attrs \cap {"has_many", "has_one"} = {}
  /\ \A n, t : Field(n, t, {"belongs_to", "nullable"}).attrs \cap {"has_many", "has_one"} = {}
  /\ SurrogateKey.attrs \cap {"has_many", "has_one"} = {}
<1>1. \A n, t : "has_many" \in Field(n, t, {"has_many"}).attrs
  BY DEF Field
<1>2. \A n, t : Field(n, t, {"has_many"}).attrs \cap {"has_many", "has_one"} # {}
  BY <1>1
<1>3. /\ \A n, t : Field(n, t, {}).attrs \cap {"has_many", "has_one"} = {}
      /\ \A n, t : Field(n, t, {"json"}).attrs \cap {"has_many", "has_one"} = {}
      /\ \A n, t : Field(n, t, {"belongs_to"}).attrs \cap {"has_many", "has_one"} = {}
  BY DEF Field
<1>4. \A n, t : Field(n, t, {"belongs_to", "nullable"}).attrs \cap {"has_many", "has_one"} = {}
  BY DEF Field
<1>5. SurrogateKey.attrs \cap {"has_many", "has_one"} = {}
  BY DEF Field, SurrogateKey
<1> QED BY <1>2, <1>3, <1>4, <1>5

\* A column holds the field's value, or the key the database gives.
LEMMA RowParts ==
  ASSUME NEW e, NEW d, NEW n \in Scalars(e)
  PROVE  ToRow(e, d).scalars[n] = IF Keyed(FieldOf(Entities[e], n)) THEN 1 ELSE d[n]
  BY DEF ToRow

\* An entity without flattened or json fields is its columns.
LEMMA NoBlob ==
  ASSUME NEW e \in {"AgentTurn", "PrResult", "Finding"}, NEW d
  PROVE  FromRow(e, ToRow(e, d)) = ScalarsOf(e, ToRow(e, d))
<1>1. JsonFields(e) = {}
  BY DEF JsonFields
<1>2. ToRow(e, d).blob = NULL
  BY <1>1 DEF ToRow
<1> QED BY <1>2 DEF FromRow, DecodeInto, ScalarsOf

\* The defaults of the types that have no column.
LEMMA LeafDefaults ==
  /\ Default("Vec") = <<>> /\ Default("Option") = NULL /\ Default("ReviewMetadata") = Plain
  /\ Default("SessionUsage") = "no usage"
  BY DEF Default

\* A field has the type it is given.
LEMMA FieldTypes == \A n, t, a : Field(n, t, a).type = t
  BY DEF Field

\* A turn is read back as it was stored, but for its children and its key.
LEMMA TurnReadsBack ==
  ASSUME NEW d \in Values("AgentTurn"), NEW n \in Names(Entities["AgentTurn"])
  PROVE  FromRow("AgentTurn", ToRow("AgentTurn", d))[n] = Normal("AgentTurn", d)[n]
<1> DEFINE r == ToRow("AgentTurn", d)
<1>1. FromRow("AgentTurn", r)[n] =
        IF n \in Scalars("AgentTurn") THEN r.scalars[n]
        ELSE Default(FieldOf(Entities["AgentTurn"], n).type)
  BY NoBlob DEF ScalarsOf
<1>2. n \in {"id", "session_id", "turn_index", "messages"}
  BY NamesOfEntities
<1>3. CASE n = "id"
  BY <1>1, <1>3, RowParts, ScalarsOfEntities, FieldsOfTurn, EntityKeys, ChildFields DEF Normal
<1>4. CASE n = "session_id"
  BY <1>1, <1>4, RowParts, ScalarsOfEntities, FieldsOfTurn, EntityKeys, ChildFields DEF Normal
<1>5. CASE n = "turn_index"
  BY <1>1, <1>5, RowParts, ScalarsOfEntities, FieldsOfTurn, EntityKeys, ChildFields DEF Normal
<1>6. CASE n = "messages"
  <2>1. Default(FieldOf(Entities["AgentTurn"], n).type) = <<>>
    <3>1. FieldOf(Entities["AgentTurn"], n).type = "Vec"
      BY <1>6, FieldsOfTurn, FieldTypes
    <3> QED BY <3>1, LeafDefaults
  <2> QED BY <1>1, <1>6, <2>1, ScalarsOfEntities, FieldsOfTurn, ChildFields DEF Normal
<1> QED BY <1>2, <1>3, <1>4, <1>5, <1>6

\* A result is read back as it was stored, but for its children and its key.
LEMMA ResultReadsBack ==
  ASSUME NEW d \in Values("PrResult"), NEW n \in Names(Entities["PrResult"])
  PROVE  FromRow("PrResult", ToRow("PrResult", d))[n] = Normal("PrResult", d)[n]
<1> DEFINE r == ToRow("PrResult", d)
<1>1. FromRow("PrResult", r)[n] =
        IF n \in Scalars("PrResult") THEN r.scalars[n]
        ELSE Default(FieldOf(Entities["PrResult"], n).type)
  BY NoBlob DEF ScalarsOf
<1>2. n \in {"id", "benchmark_id", "golden_comments", "findings"}
  BY NamesOfEntities
<1>3. CASE n = "id"
  BY <1>1, <1>3, RowParts, ScalarsOfEntities, FieldsOfResult, EntityKeys, ChildFields DEF Normal
<1>4. CASE n = "benchmark_id"
  BY <1>1, <1>4, RowParts, ScalarsOfEntities, FieldsOfResult, EntityKeys, ChildFields DEF Normal
<1>5. CASE n \in {"golden_comments", "findings"}
  <2>1. Default(FieldOf(Entities["PrResult"], n).type) = <<>>
    <3>1. FieldOf(Entities["PrResult"], n).type = "Vec"
      BY <1>5, FieldsOfResult, FieldTypes
    <3> QED BY <3>1, LeafDefaults
  <2> QED BY <1>1, <1>5, <2>1, ScalarsOfEntities, FieldsOfResult, ChildFields DEF Normal
<1> QED BY <1>2, <1>3, <1>4, <1>5

\* A finding is read back as it was stored, but for its children and its key.
LEMMA FindingReadsBack ==
  ASSUME NEW d \in Values("Finding"), NEW n \in Names(Entities["Finding"])
  PROVE  FromRow("Finding", ToRow("Finding", d))[n] = Normal("Finding", d)[n]
<1> DEFINE r == ToRow("Finding", d)
<1>1. FromRow("Finding", r)[n] =
        IF n \in Scalars("Finding") THEN r.scalars[n]
        ELSE Default(FieldOf(Entities["Finding"], n).type)
  BY NoBlob DEF ScalarsOf
<1>2. n \in {"id", "pr_result_id", "file", "message"}
  BY NamesOfEntities
<1>3. CASE n = "id"
  BY <1>1, <1>3, RowParts, ScalarsOfEntities, FieldsOfFinding, EntityKeys, ChildFields DEF Normal
<1>4. CASE n = "pr_result_id"
  BY <1>1, <1>4, RowParts, ScalarsOfEntities, FieldsOfFinding, EntityKeys, ChildFields DEF Normal
<1>5. CASE n = "file"
  BY <1>1, <1>5, RowParts, ScalarsOfEntities, FieldsOfFinding, EntityKeys, ChildFields DEF Normal
<1>6. CASE n = "message"
  BY <1>1, <1>6, RowParts, ScalarsOfEntities, FieldsOfFinding, EntityKeys, ChildFields DEF Normal
<1> QED BY <1>2, <1>3, <1>4, <1>5, <1>6

\* A session is read back as it was stored, but for its children and its key.
LEMMA SessionReadsBack ==
  ASSUME NEW d \in Values("AgentSession"), NEW n \in Names(Entities["AgentSession"])
  PROVE  FromRow("AgentSession", ToRow("AgentSession", d))[n] = Normal("AgentSession", d)[n]
<1> DEFINE e == "AgentSession"
           w == ToRow(e, d)
           b == ScalarsOf(e, w)
           r == FromRow(e, w)
<1>1. d.usage \in {"no usage", "usage"}
  BY DEF Values
<1>2. w.blob = [usage |-> d.usage]
  <2>1. JsonFields(e) # {}
    BY DEF JsonFields
  <2> QED BY <2>1 DEF ToRow, Encode
<1>3. w.blob # NULL
  BY <1>1, <1>2, RowAssumption DEF RowAssumption
<1>4. r = [b EXCEPT !.usage = d.usage]
  <2>1. r = DecodeInto(e, w.blob, b)
    BY DEF FromRow, ScalarsOf
  <2> HIDE DEF w, b
  <2>2. DecodeInto(e, w.blob, b) = [b EXCEPT !.usage = w.blob.usage]
    BY <1>3, Zenon DEF DecodeInto
  <2>3. w.blob.usage = d.usage
    BY <1>2
  <2> HIDE DEF r
  <2> QED BY <2>1, <2>2, <2>3, Zenon
<1>5. DOMAIN b = Names(Entities[e])
  BY DEF ScalarsOf
<1>6. n \in {"id", "review_id", "model_name", "usage", "turns"}
  BY NamesOfEntities
<1>7. b[n] = IF n \in Scalars(e) THEN w.scalars[n] ELSE Default(FieldOf(Entities[e], n).type)
  BY DEF ScalarsOf
<1>8. SUFFICES r[n] = Normal(e, d)[n]
  OBVIOUS
<1> HIDE DEF b, w, r
<1>9. r[n] = IF n = "usage" THEN d.usage ELSE b[n]
  BY <1>4, <1>5, NamesOfEntities
<1>10. CASE n \in {"id", "review_id", "model_name"}
  <2>1. b[n] = d[n]
    BY <1>7, <1>10, RowParts, ScalarsOfEntities, FieldsOfSession, EntityKeys DEF w
  <2> QED BY <1>9, <1>10, <2>1, FieldsOfSession, EntityKeys, ChildFields DEF Normal
<1>11. CASE n = "usage"
  BY <1>9, <1>11, FieldsOfSession, EntityKeys, ChildFields DEF Normal
<1>12. CASE n = "turns"
  <2>1. FieldOf(Entities[e], n).type = "Vec"
    BY <1>12, FieldsOfSession, FieldTypes
  <2>2. b[n] = <<>>
    BY <1>7, <1>12, <2>1, LeafDefaults, ScalarsOfEntities
  <2> QED BY <1>9, <1>12, <2>2, FieldsOfSession, ChildFields DEF Normal
<1> QED BY <1>6, <1>10, <1>11, <1>12

\* A review is read back as it was stored, but for its children and its key.
LEMMA ReviewReadsBack ==
  ASSUME NEW d \in ReviewValues
  PROVE  LET r == FromRow("Review", ToRow("Review", d)) IN
           /\ DOMAIN r = Names(Entities["Review"]) /\ r = [n \in DOMAIN r |-> r[n]]
           /\ r.metadata = Plain
           /\ \A n \in Names(Entities["Review"]) \ {"metadata"} : r[n] = Normal("Review", d)[n]
<1> DEFINE e == "Review"
           w == ToRow(e, d)
           b == ScalarsOf(e, w)
           r == DecodeInto(e, Encode(e, d), b)
<1>1. FromRow(e, w) = r
  <2>1. JsonFields(e) # {}
    BY DEF JsonFields
  <2>2. w.blob = Encode(e, d)
    BY <2>1 DEF ToRow
  <2> QED BY <2>2 DEF FromRow, ScalarsOf
<1>2. /\ d.analytics \in Analytics /\ d.duration \in Durations /\ d.error_message \in Errors
      /\ d.agent_sessions = <<>>
  BY DEF ReviewValues
<1>3. \A n \in Names(Entities[e]) :
        b[n] = IF n \in Scalars(e) THEN w.scalars[n] ELSE Default(FieldOf(Entities[e], n).type)
  BY DEF ScalarsOf
<1>4. DOMAIN b = Names(Entities[e]) /\ b = [n \in DOMAIN b |-> b[n]]
  BY DEF ScalarsOf
<1> HIDE DEF b, w
<1> DEFINE T(n) == FieldOf(Entities[e], n).type
<1>5. /\ T("analytics") = "Option" /\ T("duration") = "Option" /\ T("error_message") = "Option"
      /\ T("agent_sessions") = "Vec" /\ T("metadata") = "ReviewMetadata"
  BY FieldsOfReview, FieldTypes
<1> HIDE DEF T
<1>6. \A n \in {"agent_sessions", "analytics", "duration", "error_message", "metadata"} : b[n] = Default(T(n))
  <2>1. \A n \in {"agent_sessions", "analytics", "duration", "error_message", "metadata"} :
          n \in Names(Entities[e]) /\ n \notin Scalars(e)
    BY NamesOfEntities, ScalarsOfEntities
  <2> QED BY <1>3, <2>1 DEF T
<1>7. b.analytics = NULL /\ b.duration = NULL /\ b.error_message = NULL
  BY <1>5, <1>6, LeafDefaults
<1>8. b.agent_sessions = <<>> /\ b.metadata = Plain
  BY <1>5, <1>6, LeafDefaults
<1>9. b.id = d.id /\ b.status = d.status
  BY <1>3, NamesOfEntities, ScalarsOfEntities, RowParts, FieldsOfReview, EntityKeys DEF w
<1>10. /\ r.analytics = IF d.analytics = "empty" THEN NULL ELSE d.analytics
       /\ r.duration = IF d.duration = 0 THEN NULL ELSE d.duration
       /\ r.error_message = d.error_message
       /\ \A n \in DOMAIN b \ {"analytics", "duration", "error_message"} : r[n] = b[n]
       /\ DOMAIN r = DOMAIN b /\ r = [n \in DOMAIN b |-> r[n]]
  BY <1>2, <1>4, <1>7, ReviewEncodesBack
<1> HIDE DEF r
<1>11. /\ r.id = d.id /\ r.status = d.status /\ r.metadata = Plain /\ r.agent_sessions = <<>>
  BY <1>4, <1>8, <1>9, <1>10, NamesOfEntities
<1>12. ASSUME NEW n \in Names(Entities[e]) \ {"metadata"}
       PROVE  r[n] = Normal(e, d)[n]
  <2>1. Normal(e, d)[n] =
          LET f == FieldOf(Entities[e], n) IN
            IF f.attrs \cap {"has_many", "has_one"} # {} THEN <<>>
            ELSE IF Keyed(f) THEN 1
            ELSE IF n = "analytics" /\ d[n] = "empty" THEN NULL
            ELSE IF n = "duration" /\ d[n] = 0 THEN NULL
            ELSE d[n]
    BY DEF Normal
  <2>2. n \in {"id", "agent_sessions", "analytics", "duration", "error_message", "status"}
    BY NamesOfEntities
  <2>3. CASE n = "agent_sessions"
    BY <1>11, <2>1, <2>3, FieldsOfReview, ChildFields
  <2>4. CASE n \in {"id", "status"}
    BY <1>11, <2>1, <2>4, FieldsOfReview, ChildFields, EntityKeys
  <2>5. CASE n \in {"analytics", "duration", "error_message"}
    BY <1>10, <2>1, <2>5, FieldsOfReview, ChildFields, EntityKeys
  <2> QED BY <2>2, <2>3, <2>4, <2>5
<1>13. DOMAIN r = Names(Entities[e]) /\ r = [n \in DOMAIN r |-> r[n]]
  BY <1>4, <1>10
<1> QED BY <1>1, <1>11, <1>12, <1>13 DEF w

\* The variant of a pull request's review, and the columns it has.
PrVariant ==
  [tag |-> "pull_request", of |-> "PullRequestReviewMetadata",
   columns |-> {<<"repository", n>> : n \in {"owner", "name", "platform"}}
                 \cup {<<"pr", n>> : n \in {"title", "url", "number"}}]

\* The variant of a commit's review.
CommitVariant ==
  [tag |-> "commit", of |-> "CommitReviewMetadata", columns |-> {<<"commit_hash">>}]

\* A tag names its variant, and a row has all variants' columns.
LEMMA TheVariants ==
  /\ VariantOf("pull_request") = PrVariant
  /\ VariantOf("commit") = CommitVariant
  /\ VariantOf("plain") = [tag |-> "plain", of |-> "", columns |-> {}]
  /\ {PrVariant, CommitVariant} \subseteq Variants
  /\ FlatColumns = {TagColumn, <<"commit_hash">>} \cup PrVariant.columns
<1> DEFINE P == [tag |-> "plain", of |-> "", columns |-> {}]
<1>1. Variants = {PrVariant, CommitVariant, P}
  BY DEF Variants, PrVariant, CommitVariant
<1>2. PrVariant.tag = "pull_request" /\ CommitVariant.tag = "commit" /\ P.tag = "plain"
  BY DEF PrVariant, CommitVariant
<1>3. CommitVariant.columns = {<<"commit_hash">>} /\ P.columns = {}
  BY DEF CommitVariant
<1> HIDE DEF P
<1>4. /\ VariantOf("pull_request") = PrVariant /\ VariantOf("commit") = CommitVariant
      /\ VariantOf("plain") = P
  BY <1>1, <1>2 DEF VariantOf
<1>5. FlatColumns = {TagColumn, <<"commit_hash">>} \cup PrVariant.columns
  BY <1>1, <1>3 DEF FlatColumns
<1> QED BY <1>1, <1>4, <1>5 DEF P

\* The leaves of its two structs.
RepoFields == {Leaf("owner", "String"), Leaf("name", "String"), Leaf("platform", "VCSPlatform")}
PrFields == {Leaf("title", "String"), Leaf("url", "String"), Leaf("number", "u32")}

\* The fields of a pull request's metadata: two structs, and below them leaves.
LEMMA LeavesNest ==
  LET F == FlattenedStruct["PullRequestReviewMetadata"] IN
  /\ \A f \in F : ~IsKnownLeaf(f)
  /\ Names(F) = {"repository", "meta"}
  /\ FieldOf(F, "repository").type = "RemoteRepositoryMeta"
  /\ FieldOf(F, "repository").prefix = <<"repository">>
  /\ FieldOf(F, "meta").type = "PrMeta"
  /\ FieldOf(F, "meta").prefix = <<"pr">>
  /\ F = {FieldOf(F, "repository"), FieldOf(F, "meta")}
  /\ FieldOf(F, "repository").name = "repository"
  /\ FieldOf(F, "meta").name = "meta"
  /\ FlattenedStruct["RemoteRepositoryMeta"] = RepoFields
  /\ FlattenedStruct["PrMeta"] = PrFields
<1> DEFINE F == FlattenedStruct["PullRequestReviewMetadata"]
           R == Leaf("repository", "RemoteRepositoryMeta")
           M == [Leaf("meta", "PrMeta") EXCEPT !.prefix = <<"pr">>]
<1>1. F = {R, M}
  BY DEF FlattenedStruct
<1>2. /\ R.type = "RemoteRepositoryMeta" /\ R.name = "repository" /\ R.prefix = <<"repository">>
      /\ M.type = "PrMeta" /\ M.name = "meta" /\ M.prefix = <<"pr">>
  BY DEF Leaf
<1>3. /\ FlattenedStruct["RemoteRepositoryMeta"] = RepoFields
      /\ FlattenedStruct["PrMeta"] = PrFields
      /\ {"RemoteRepositoryMeta", "PrMeta"} \subseteq DOMAIN FlattenedStruct
  BY DEF FlattenedStruct, RepoFields, PrFields
<1> HIDE DEF R, M, F
<1>4. FieldOf(F, "repository") = R /\ FieldOf(F, "meta") = M
  BY <1>1, <1>2 DEF FieldOf
<1>5. \A f \in F : ~IsKnownLeaf(f)
  BY <1>1, <1>2, <1>3 DEF IsKnownLeaf
<1>6. Names(F) = {"repository", "meta"}
  BY <1>1, <1>2 DEF Names
<1> QED BY <1>1, <1>2, <1>3, <1>4, <1>5, <1>6 DEF F

\* What is read of a leaf is its name, its type and that it is no option.
\* The names of the leaves.
LEMMA LeafNames ==
  /\ Names(RepoFields) = {"owner", "name", "platform"}
  /\ Names(PrFields) = {"title", "url", "number"}
  BY DEF Names, RepoFields, PrFields, Leaf

\* A leaf is found by its name.
LEMMA LeafFields ==
  /\ FieldOf(RepoFields, "owner") = Leaf("owner", "String")
  /\ FieldOf(RepoFields, "name") = Leaf("name", "String")
  /\ FieldOf(RepoFields, "platform") = Leaf("platform", "VCSPlatform")
  /\ FieldOf(PrFields, "title") = Leaf("title", "String")
  /\ FieldOf(PrFields, "url") = Leaf("url", "String")
  /\ FieldOf(PrFields, "number") = Leaf("number", "u32")
  BY DEF FieldOf, RepoFields, PrFields, Leaf

\* A leaf is of a type that has a column.
LEMMA LeavesAreKnown == \A f \in RepoFields \cup PrFields : IsKnownLeaf(f)
<1>1. \A f \in RepoFields \cup PrFields : f.type \in {"String", "VCSPlatform", "u32"}
  BY DEF RepoFields, PrFields, Leaf
<1>2. \A t \in {"String", "VCSPlatform", "u32"} : t \notin DOMAIN FlattenedStruct
  BY DEF FlattenedStruct
<1> QED BY <1>1, <1>2 DEF IsKnownLeaf

\* A struct of leaves flattens to one column for each, under its prefix.
LEMMA LeavesOf ==
  ASSUME NEW fields \in SUBSET (RepoFields \cup PrFields), NEW prefix, NEW v
  PROVE  Leaves(fields, prefix, v) =
           {[column |-> Append(prefix, n), value |-> v[n]] : n \in Names(fields)}
<1>1. {g \in fields : IsKnownLeaf(g)} = fields
  BY LeavesAreKnown
<1> QED BY <1>1 DEF Leaves, Names

\* A path of one name and the next are a path of two.
LEMMA AppendPair == \A a, b : Append(<<a>>, b) = <<a, b>>
<1> SUFFICES ASSUME NEW a, NEW b PROVE Append(<<a>>, b) = <<a, b>>
  OBVIOUS
<1> DEFINE S == {a, b}
           s == Append(<<a>>, b)
           t == <<a, b>>
<1>1. <<a>> \in Seq(S) /\ b \in S /\ t \in Seq(S)
  OBVIOUS
<1>2. s \in Seq(S) /\ Len(s) = 2 /\ s[1] = a /\ s[2] = b
  <2>1. Len(<<a>>) = 1 /\ <<a>>[1] = a
    OBVIOUS
  <2> QED BY <1>1, <2>1
<1>3. Len(t) = 2 /\ t[1] = a /\ t[2] = b
  OBVIOUS
<1> HIDE DEF s, t, S
<1>4. \A i \in 1 .. 2 : s[i] = t[i]
  BY <1>2, <1>3
<1>5. s = t
  BY <1>1, <1>2, <1>3, <1>4, SeqEqual
<1> QED BY <1>5 DEF s, t

\* The columns of a pull request's metadata (flatten).
LEMMA PrFlatten ==
  ASSUME NEW v
  PROVE  Flatten(FlattenedStruct["PullRequestReviewMetadata"], v) =
           {[column |-> <<"repository", n>>, value |-> v.repository[n]] : n \in {"owner", "name", "platform"}}
             \cup {[column |-> <<"pr", n>>, value |-> v.meta[n]] : n \in {"title", "url", "number"}}
<1> DEFINE F == FlattenedStruct["PullRequestReviewMetadata"]
           R == FieldOf(F, "repository")
           M == FieldOf(F, "meta")
<1>1. Leaves(F, <<>>, v) = {}
  BY LeavesNest DEF Leaves
<1>2. {f \in F : ~IsKnownLeaf(f)} = {R, M}
  BY LeavesNest
<1>3. UNION {Leaves(FlattenedStruct[f.type], f.prefix, v[f.name]) : f \in {R, M}} =
        Leaves(RepoFields, <<"repository">>, v.repository) \cup Leaves(PrFields, <<"pr">>, v.meta)
  BY LeavesNest
<1>4. Flatten(F, v) = Leaves(RepoFields, <<"repository">>, v.repository) \cup Leaves(PrFields, <<"pr">>, v.meta)
  BY <1>1, <1>2, <1>3 DEF Flatten
<1>5. Leaves(RepoFields, <<"repository">>, v.repository) =
        {[column |-> <<"repository", n>>, value |-> v.repository[n]] : n \in {"owner", "name", "platform"}}
  <2>1. \A n : Append(<<"repository">>, n) = <<"repository", n>>
    BY AppendPair
  <2>2. RepoFields \in SUBSET (RepoFields \cup PrFields)
    OBVIOUS
  <2>3. \A w : Leaves(RepoFields, <<"repository">>, w) =
          {[column |-> Append(<<"repository">>, n), value |-> w[n]] : n \in Names(RepoFields)}
    BY <2>2, LeavesOf
  <2> QED BY <2>1, <2>3, LeafNames
<1>6. Leaves(PrFields, <<"pr">>, v.meta) =
        {[column |-> <<"pr", n>>, value |-> v.meta[n]] : n \in {"title", "url", "number"}}
  <2>1. \A n : Append(<<"pr">>, n) = <<"pr", n>>
    BY AppendPair
  <2>2. PrFields \in SUBSET (RepoFields \cup PrFields)
    OBVIOUS
  <2>3. \A w : Leaves(PrFields, <<"pr">>, w) =
          {[column |-> Append(<<"pr">>, n), value |-> w[n]] : n \in Names(PrFields)}
    BY <2>2, LeavesOf
  <2> QED BY <2>1, <2>3, LeafNames
<1> QED BY <1>4, <1>5, <1>6

\* A column of a pull request's review holds the leaf of its name.
LEMMA ColumnsOfPr ==
  ASSUME NEW m
  PROVE  /\ \A n \in {"owner", "name", "platform"} :
              ColumnOf(PrVariant, m, <<"repository", n>>) = m.inner.repository[n]
         /\ \A n \in {"title", "url", "number"} :
              ColumnOf(PrVariant, m, <<"pr", n>>) = m.inner.meta[n]
<1> DEFINE F == Flatten(FlattenedStruct["PullRequestReviewMetadata"], m.inner)
           A(n) == [column |-> <<"repository", n>>, value |-> m.inner.repository[n]]
           B(n) == [column |-> <<"pr", n>>, value |-> m.inner.meta[n]]
<1>1. F = {A(n) : n \in {"owner", "name", "platform"}} \cup {B(n) : n \in {"title", "url", "number"}}
  BY PrFlatten
<1>2. PrVariant.of = "PullRequestReviewMetadata"
  BY DEF PrVariant
<1>3. /\ \A n : A(n).column = <<"repository", n>> /\ A(n).value = m.inner.repository[n]
      /\ \A n : B(n).column = <<"pr", n>> /\ B(n).value = m.inner.meta[n]
  OBVIOUS
<1>4. /\ \A n, k : <<"repository", n>> # <<"pr", k>>
      /\ \A n, k : <<"repository", n>> = <<"repository", k>> => n = k
      /\ \A n, k : <<"pr", n>> = <<"pr", k>> => n = k
  OBVIOUS
<1> HIDE DEF F, A, B
<1>5. ASSUME NEW n \in {"owner", "name", "platform"}
      PROVE  ColumnOf(PrVariant, m, <<"repository", n>>) = m.inner.repository[n]
  <2>1. {p \in F : p.column = <<"repository", n>>} = {A(n)}
    BY <1>1, <1>3, <1>4
  <2> QED BY <1>2, <1>3, <2>1 DEF ColumnOf, F
<1>6. ASSUME NEW n \in {"title", "url", "number"}
      PROVE  ColumnOf(PrVariant, m, <<"pr", n>>) = m.inner.meta[n]
  <2>1. {p \in F : p.column = <<"pr", n>>} = {B(n)}
    BY <1>1, <1>3, <1>4
  <2> QED BY <1>2, <1>3, <2>1 DEF ColumnOf, F
<1> QED BY <1>5, <1>6

\* Every row of reviews has all variants' columns.
LEMMA FlatColumnsOf ==
  /\ TagColumn \in FlatColumns
  /\ \A n \in {"owner", "name", "platform"} :
       <<"repository", n>> \in FlatColumns /\ <<"repository", n>> # TagColumn
  /\ \A n \in {"title", "url", "number"} :
       <<"pr", n>> \in FlatColumns /\ <<"pr", n>> # TagColumn
<1>1. \A v \in Variants : v.columns \subseteq FlatColumns
  BY DEF FlatColumns
<1>2. /\ \A n \in {"owner", "name", "platform"} : <<"repository", n>> \in PrVariant.columns
      /\ \A n \in {"title", "url", "number"} : <<"pr", n>> \in PrVariant.columns
  BY DEF PrVariant
<1>3. TagColumn \in FlatColumns
  BY DEF FlatColumns
<1>4. /\ \A n : <<"repository", n>> # TagColumn
      /\ \A n : <<"pr", n>> # TagColumn
  BY DEF TagColumn
<1> QED BY <1>1, <1>2, <1>3, <1>4, TheVariants

\* A commit's metadata: a struct with one leaf, and a leaf.
RootField == [Leaf("repo_root", "PathBuf") EXCEPT !.option = TRUE]

\* The fields of a commit's metadata.
LEMMA CommitFields ==
  LET F == FlattenedStruct["CommitReviewMetadata"]
      R == FieldOf(F, "repository")
      H == FieldOf(F, "commit_hash") IN
  /\ F = {R, H} /\ Names(F) = {"repository", "commit_hash"}
  /\ R.name = "repository" /\ R.type = "GitRepositoryMeta" /\ R.prefix = <<"repository">>
  /\ H.name = "commit_hash" /\ H.type = "String"
  /\ ~IsKnownLeaf(R) /\ IsKnownLeaf(H)
  /\ FlattenedStruct["GitRepositoryMeta"] = {RootField}
<1> DEFINE F == FlattenedStruct["CommitReviewMetadata"]
           R == Leaf("repository", "GitRepositoryMeta")
           H == Leaf("commit_hash", "String")
<1>1. F = {R, H} /\ FlattenedStruct["GitRepositoryMeta"] = {RootField}
  BY DEF FlattenedStruct, RootField
<1>2. /\ R.name = "repository" /\ R.type = "GitRepositoryMeta" /\ R.prefix = <<"repository">>
      /\ H.name = "commit_hash" /\ H.type = "String"
  BY DEF Leaf
<1>3. "GitRepositoryMeta" \in DOMAIN FlattenedStruct /\ "String" \notin DOMAIN FlattenedStruct
  BY DEF FlattenedStruct
<1> HIDE DEF F, R, H
<1>4. FieldOf(F, "repository") = R /\ FieldOf(F, "commit_hash") = H
  BY <1>1, <1>2 DEF FieldOf
<1>5. ~IsKnownLeaf(R) /\ IsKnownLeaf(H)
  BY <1>2, <1>3 DEF IsKnownLeaf
<1>6. Names(F) = {"repository", "commit_hash"}
  BY <1>1, <1>2 DEF Names
<1> QED BY <1>1, <1>2, <1>4, <1>5, <1>6 DEF F

\* A column of one name.
LEMMA AppendFirst == \A a : Append(<<>>, a) = <<a>>
  OBVIOUS

\* Only the hash of a commit has a column of its variant's (to_columns).
LEMMA ColumnOfCommit ==
  ASSUME NEW m PROVE ColumnOf(CommitVariant, m, <<"commit_hash">>) = m.inner.commit_hash
<1> DEFINE S == FlattenedStruct["CommitReviewMetadata"]
           R == FieldOf(S, "repository")
           H == FieldOf(S, "commit_hash")
           v == m.inner
           F == Flatten(S, v)
           G == FlattenedStruct["GitRepositoryMeta"]
           C == <<"commit_hash">>
           D == Append(<<"repository">>, "repo_root")
           pair == [column |-> C, value |-> v.commit_hash]
           other == [column |-> D, value |-> v.repository["repo_root"]]
<1>1. {f \in S : IsKnownLeaf(f)} = {H} /\ {f \in S : ~IsKnownLeaf(f)} = {R}
  BY CommitFields
<1>2. Leaves(S, <<>>, v) = {pair}
  <2>1. Leaves(S, <<>>, v) = {[column |-> Append(<<>>, f.name), value |-> v[f.name]] : f \in {H}}
    BY <1>1 DEF Leaves
  <2> QED BY <2>1, CommitFields, AppendFirst
<1>3. Leaves(G, <<"repository">>, v.repository) \subseteq {other}
  <2>1. \A f \in G : f.name = "repo_root"
    BY CommitFields DEF RootField, Leaf
  <2> QED BY <2>1 DEF Leaves
<1>4. F = {pair} \cup Leaves(G, <<"repository">>, v.repository)
  <2>1. F = Leaves(S, <<>>, v)
            \cup UNION {Leaves(FlattenedStruct[f.type], f.prefix, v[f.name]) : f \in {R}}
    BY <1>1 DEF Flatten
  <2> QED BY <1>2, <2>1, CommitFields
<1>5. C # D
  BY AppendPair
<1>6. pair.column = C /\ pair.value = v.commit_hash /\ other.column = D
  OBVIOUS
<1> HIDE DEF F, pair, other, C, D
<1>7. {p \in F : p.column = C} = {pair}
  BY <1>3, <1>4, <1>5, <1>6
<1>8. CommitVariant.of = "CommitReviewMetadata"
  BY DEF CommitVariant
<1> QED BY <1>6, <1>7, <1>8 DEF ColumnOf, F, C

\* What is written into a leaf's column is read out of it.
LEMMA LeafReadsBack ==
  ASSUME NEW f, NEW prefix, NEW columns, Append(prefix, f.name) \in DOMAIN columns,
         NEW text, columns[Append(prefix, f.name)] = text,
         text # NULL, ParseLeaf(f.type, text) = text
  PROVE  UnflattenLeaf(f, prefix, columns) = text
  BY DEF UnflattenLeaf

\* A name, a host's name and a number are read as they were written.
LEMMA LeafParses ==
  /\ \A t : ParseLeaf("String", t) = t
  /\ \A t \in Digits : ParseLeaf("u32", t) = t
  /\ \A t \in {"GitHub", "Codeberg"} : ParseLeaf("VCSPlatform", t) = t
  BY DEF ParseLeaf

\* The columns of a review's row are read as the metadata they were written from.
LEMMA MetadataReadsBackFromColumns ==
  ASSUME NEW m \in Metadata
  PROVE  FromColumns(ToColumns(m)) = Kept(m)
<1> DEFINE cols == ToColumns(m)
<1>1. cols[TagColumn] = m.tag
  BY FlatColumnsOf DEF ToColumns
<1>2. CASE m = Plain
  <2>1. VariantOf(cols[TagColumn]) = [tag |-> "plain", of |-> "", columns |-> {}]
    BY <1>1, <1>2, TheVariants DEF Plain
  <2> DEFINE v == VariantOf(cols[TagColumn])
  <2>2. v.tag = "plain" /\ v.columns = {}
    <3>1. v = [tag |-> "plain", of |-> "", columns |-> {}]
      BY <2>1
    <3> HIDE DEF v
    <3> QED BY <3>1
  <2> HIDE DEF cols
  <2>3. FromColumns(cols) = [tag |-> "plain", inner |-> <<>>]
    BY <2>2 DEF FromColumns
  <2> QED BY <1>2, <2>3 DEF Plain, cols, Kept
<1>3. ASSUME NEW t \in Texts, NEW k \in Digits, NEW p \in {"GitHub", "Codeberg"},
             m = PullRequest(t, k, p)
      PROVE  FromColumns(ToColumns(m)) = Kept(m)
  <2> DEFINE S == FlattenedStruct["PullRequestReviewMetadata"]
             R == FieldOf(S, "repository")
             M == FieldOf(S, "meta")
             r == [owner |-> "owner", name |-> "name", platform |-> p]
             q == [title |-> t, url |-> "url", number |-> k]
  <2>1. /\ m.tag = "pull_request" /\ m.inner = [repository |-> r, meta |-> q]
        /\ m = [tag |-> "pull_request", inner |-> [repository |-> r, meta |-> q]]
    BY <1>3 DEF PullRequest
  <2>2. VariantOf(m.tag) = PrVariant /\ PrVariant.columns # {}
    <3>1. <<"pr", "url">> \in PrVariant.columns
      BY DEF PrVariant
    <3> QED BY <2>1, <3>1, TheVariants
  <2>3. /\ \A n \in {"owner", "name", "platform"} : cols[<<"repository", n>>] = r[n]
        /\ \A n \in {"title", "url", "number"} : cols[<<"pr", n>>] = q[n]
    BY <2>1, <2>2, ColumnsOfPr, FlatColumnsOf DEF ToColumns
  <2>4. DOMAIN cols = FlatColumns
    BY DEF ToColumns
  <2> HIDE DEF cols
  <2>5. UnflattenNested(RepoFields, <<"repository">>, cols) = r
    <3>1. \A n \in Names(RepoFields) : UnflattenLeaf(FieldOf(RepoFields, n), <<"repository">>, cols) = r[n]
      <4> SUFFICES ASSUME NEW n \in {"owner", "name", "platform"}
                   PROVE  UnflattenLeaf(FieldOf(RepoFields, n), <<"repository">>, cols) = r[n]
        BY LeafNames
      <4> DEFINE f == FieldOf(RepoFields, n)
      <4>1. f.name = n /\ f.type = IF n = "platform" THEN "VCSPlatform" ELSE "String"
        BY LeafFields DEF Leaf
      <4>2. r[n] # NULL
        <5>1. r[n] \in {"owner", "name", "GitHub", "Codeberg"}
          OBVIOUS
        <5> HIDE DEF r
        <5> QED BY <5>1, RowAssumption DEF RowAssumption
      <4>3. ParseLeaf(f.type, r[n]) = r[n]
        BY <4>1, LeafParses
      <4>4. Append(<<"repository">>, f.name) = <<"repository", n>>
        BY <4>1, AppendPair
      <4>5. <<"repository", n>> \in DOMAIN cols /\ cols[<<"repository", n>>] = r[n]
        BY <2>3, <2>4, FlatColumnsOf
      <4> HIDE DEF f, r
      <4> QED BY <4>2, <4>3, <4>4, <4>5, LeafReadsBack DEF f
    <3> QED BY <3>1, LeafNames DEF UnflattenNested
  <2>6. UnflattenNested(PrFields, <<"pr">>, cols) = q
    <3>1. \A n \in Names(PrFields) : UnflattenLeaf(FieldOf(PrFields, n), <<"pr">>, cols) = q[n]
      <4> SUFFICES ASSUME NEW n \in {"title", "url", "number"}
                   PROVE  UnflattenLeaf(FieldOf(PrFields, n), <<"pr">>, cols) = q[n]
        BY LeafNames
      <4> DEFINE f == FieldOf(PrFields, n)
      <4>1. f.name = n /\ f.type = IF n = "number" THEN "u32" ELSE "String"
        BY LeafFields DEF Leaf
      <4>2. q[n] # NULL
        <5>1. q[n] \in Texts \cup Digits \cup {"url"}
          OBVIOUS
        <5> HIDE DEF q
        <5> QED BY <5>1, RowAssumption DEF RowAssumption
      <4>3. ParseLeaf(f.type, q[n]) = q[n]
        BY <4>1, LeafParses
      <4>4. Append(<<"pr">>, f.name) = <<"pr", n>>
        BY <4>1, AppendPair
      <4>5. <<"pr", n>> \in DOMAIN cols /\ cols[<<"pr", n>>] = q[n]
        BY <2>3, <2>4, FlatColumnsOf
      <4> HIDE DEF f, q
      <4> QED BY <4>2, <4>3, <4>4, <4>5, LeafReadsBack DEF f
    <3> QED BY <3>1, LeafNames DEF UnflattenNested
  <2>7. \A n \in {"repository", "meta"} : Unflatten(S, cols)[n] = IF n = "repository" THEN r ELSE q
    <3> SUFFICES ASSUME NEW n \in {"repository", "meta"}
                 PROVE  Unflatten(S, cols)[n] = IF n = "repository" THEN r ELSE q
      OBVIOUS
    <3> DEFINE f == FieldOf(S, n)
    <3>1. f \in S /\ ~IsKnownLeaf(f) /\ n \in Names(S)
      BY LeavesNest
    <3>2. Unflatten(S, cols)[n] = UnflattenNested(FlattenedStruct[f.type], f.prefix, cols)
      BY <3>1 DEF Unflatten
    <3> QED BY <2>5, <2>6, <3>2, LeavesNest
  <2>8. Unflatten(S, cols) = [n \in {"repository", "meta"} |-> Unflatten(S, cols)[n]]
    BY LeavesNest DEF Unflatten
  <2>9. Unflatten(S, cols) = [repository |-> r, meta |-> q]
    BY <2>7, <2>8
  <2>10. PrVariant.tag = "pull_request" /\ PrVariant.of = "PullRequestReviewMetadata"
    BY DEF PrVariant
  <2> HIDE DEF r, q, S
  <2>11. FromColumns(cols) = [tag |-> "pull_request", inner |-> Unflatten(S, cols)]
    BY <1>1, <2>1, <2>2, <2>10 DEF FromColumns, S
  <2> QED BY <2>1, <2>9, <2>11 DEF cols, Kept
<1>4. ASSUME NEW t \in Texts, NEW root \in {NULL, "root"}, m = Commit(t, root)
      PROVE  FromColumns(ToColumns(m)) = Kept(m)
  <2> DEFINE S == FlattenedStruct["CommitReviewMetadata"]
             R == FieldOf(S, "repository")
             H == FieldOf(S, "commit_hash")
             G == FlattenedStruct["GitRepositoryMeta"]
             C == <<"commit_hash">>
             D == Append(<<"repository">>, "repo_root")
  <2>1. /\ m.tag = "commit" /\ m.inner.commit_hash = t
        /\ m = [tag |-> "commit", inner |-> [repository |-> [repo_root |-> root], commit_hash |-> t]]
    BY <1>4 DEF Commit
  <2>2. VariantOf(m.tag) = CommitVariant /\ CommitVariant.columns # {}
    BY <2>1, TheVariants DEF CommitVariant
  <2>3. DOMAIN cols = FlatColumns /\ C \in FlatColumns /\ C # TagColumn /\ D \notin FlatColumns
    <3>1. DOMAIN cols = FlatColumns
      BY DEF ToColumns
    <3>2. D = <<"repository", "repo_root">>
      BY AppendPair
    <3>3. C # TagColumn /\ D # TagColumn /\ D # C
      BY <3>2 DEF TagColumn
    <3>4. D \notin PrVariant.columns
      BY <3>2 DEF PrVariant
    <3> QED BY <3>1, <3>3, <3>4, TheVariants
  <2>4. cols[C] = t
    BY <2>1, <2>2, <2>3, ColumnOfCommit DEF ToColumns
  <2> HIDE DEF cols, C, D
  <2>5. UnflattenLeaf(H, <<>>, cols) = t
    <3>1. Append(<<>>, H.name) = C /\ ParseLeaf(H.type, t) = t
      BY CommitFields, AppendFirst, LeafParses DEF C
    <3>2. t # NULL
      BY RowAssumption DEF RowAssumption
    <3> QED BY <2>3, <2>4, <3>1, <3>2, LeafReadsBack
  <2>6. UnflattenNested(G, <<"repository">>, cols) = [repo_root |-> NULL]
    <3>1. /\ RootField.name = "repo_root" /\ RootField.option
          /\ Names(G) = {"repo_root"} /\ FieldOf(G, "repo_root") = RootField
      <4>1. RootField.name = "repo_root" /\ RootField.option
        BY DEF RootField, Leaf
      <4> QED BY <4>1, CommitFields DEF Names, FieldOf
    <3>2. UnflattenLeaf(RootField, <<"repository">>, cols) = NULL
      <4>1. Append(<<"repository">>, RootField.name) \notin DOMAIN cols
        BY <2>3, <3>1 DEF D
      <4> QED BY <3>1, <4>1 DEF UnflattenLeaf
    <3> QED BY <3>1, <3>2 DEF UnflattenNested
  <2>7. /\ Unflatten(S, cols)["repository"] = [repo_root |-> NULL]
        /\ Unflatten(S, cols)["commit_hash"] = t
        /\ Unflatten(S, cols) = [n \in {"repository", "commit_hash"} |-> Unflatten(S, cols)[n]]
    BY <2>5, <2>6, CommitFields DEF Unflatten
  <2>8. Unflatten(S, cols) = [repository |-> [repo_root |-> NULL], commit_hash |-> t]
    <3> DEFINE u == Unflatten(S, cols)
    <3> HIDE DEF u
    <3>1. u = [n \in {"repository", "commit_hash"} |-> u[n]]
      BY <2>7 DEF u
    <3>2. u["repository"] = [repo_root |-> NULL] /\ u["commit_hash"] = t
      BY <2>7 DEF u
    <3>3. u = [repository |-> [repo_root |-> NULL], commit_hash |-> t]
      BY <3>1, <3>2
    <3> QED BY <3>3 DEF u
  <2>9. cols[TagColumn] = m.tag
    BY <1>1 DEF cols
  <2>10. CommitVariant.tag = "commit" /\ CommitVariant.of = "CommitReviewMetadata"
    BY DEF CommitVariant
  <2> HIDE DEF S
  <2>11. FromColumns(cols) = [tag |-> "commit", inner |-> Unflatten(S, cols)]
    BY <2>1, <2>2, <2>9, <2>10 DEF FromColumns, S
  <2>12. Kept(m) = [tag |-> "commit", inner |-> [repository |-> [repo_root |-> NULL], commit_hash |-> t]]
    BY <2>1 DEF Kept, Commit
  <2> QED BY <2>8, <2>11, <2>12 DEF cols
<1> QED BY <1>2, <1>3, <1>4 DEF Metadata

\* A row is the row of the value saved last; what a job or a page holds is a review.
RowKept ==
  /\ entity \in DOMAIN Entities
  /\ given \in KeptBy(entity)
  /\ row = NoRow \/ row = ToRow(entity, given)
  /\ \A r \in {started, page} : r = None \/ (entity = "Review" /\ r \in ReviewValues)

\* What the starter saves is a review.
LEMMA RunningIsReview == \A m \in Metadata : Running(m) \in ReviewValues
  BY DEF Running, ReviewValues, Analytics, Durations, Errors

\* A new value is one that is stored.
LEMMA ValuesAreKept == \A e \in DOMAIN Entities : Values(e) \subseteq KeptBy(e)
<1>1. Values("Review") \subseteq ReviewValues
  BY RunningIsReview DEF Values
<1> QED BY <1>1 DEF KeptBy

\* A review that was read from its row is one that may be stored.
LEMMA PageIsReview ==
  ASSUME NEW d \in ReviewValues
  PROVE  FromRow("Review", ToRow("Review", d)) \in ReviewValues
<1> DEFINE r == FromRow("Review", ToRow("Review", d))
           N == {"id", "agent_sessions", "analytics", "duration", "error_message", "status", "metadata"}
<1>1. /\ DOMAIN r = N /\ r = [n \in N |-> r[n]]
      /\ r.metadata = Plain
      /\ \A n \in N \ {"metadata"} : r[n] = Normal("Review", d)[n]
  BY ReviewReadsBack, NamesOfEntities
<1> HIDE DEF r
<1>2. \A n \in N : Normal("Review", d)[n] =
          LET f == FieldOf(Entities["Review"], n) IN
            IF f.attrs \cap {"has_many", "has_one"} # {} THEN <<>>
            ELSE IF Keyed(f) THEN 1
            ELSE IF n = "analytics" /\ d[n] = "empty" THEN NULL
            ELSE IF n = "duration" /\ d[n] = 0 THEN NULL
            ELSE d[n]
  BY NamesOfEntities DEF Normal
<1>3. \A n \in N \ {"agent_sessions", "metadata"} :
         LET f == FieldOf(Entities["Review"], n) IN
           f.attrs \cap {"has_many", "has_one"} = {} /\ ~Keyed(f)
  BY FieldsOfReview, ChildFields, EntityKeys
<1>4. r.agent_sessions = <<>>
  BY <1>1, <1>2, FieldsOfReview, ChildFields
<1>5. r.id = d.id /\ r.status = d.status /\ r.error_message = d.error_message
  BY <1>1, <1>2, <1>3
<1>6. r.analytics \in {NULL, d.analytics} /\ r.duration \in {NULL, d.duration}
  BY <1>1, <1>2, <1>3
<1>7. /\ d.id = "id" /\ d.status \in {"Running", "Completed", "Failed"} /\ d.error_message \in Errors
      /\ d.analytics \in Analytics /\ d.duration \in Durations
  BY DEF ReviewValues
<1>8. NULL \in Analytics /\ NULL \in Durations
  BY DEF Analytics, Durations
<1>9. Plain \in Metadata
  BY DEF Metadata
<1>10. /\ r.id \in {"id"} /\ r.agent_sessions \in {<<>>} /\ r.analytics \in Analytics
       /\ r.duration \in Durations /\ r.error_message \in Errors
       /\ r.status \in {"Running", "Completed", "Failed"} /\ r.metadata \in Metadata
  BY <1>1, <1>4, <1>5, <1>6, <1>7, <1>8, <1>9
<1>11. r \in ReviewValues
  BY <1>1, <1>10 DEF ReviewValues
<1> QED BY <1>11 DEF r

\* A save or a load of any of its writers keeps what is known of the row and of its value.
LEMMA RowInductive == RowKept /\ [RowNext]_rowVars => RowKept'
<1> SUFFICES ASSUME RowKept, [RowNext]_rowVars PROVE RowKept'
  OBVIOUS
<1>1. ASSUME NEW d \in KeptBy(entity), Put(d), UNCHANGED entity,
             \A r \in {started', page'} : r = None \/ (entity = "Review" /\ r \in ReviewValues)
      PROVE  RowKept'
  BY <1>1 DEF Put, RowKept
<1>2. CASE SaveNew
  <2>1. given \in KeptBy(entity)
    BY DEF RowKept
  <2>2. started' = None \/ (entity = "Review" /\ started' \in ReviewValues)
    BY <1>2, <2>1 DEF SaveNew, KeptBy
  <2> QED BY <1>1, <1>2, <2>1, <2>2 DEF SaveNew, RowKept
<1>3. CASE SaveOutcome
  <2>1. entity = "Review" /\ started \in ReviewValues
    BY <1>3 DEF SaveOutcome, RowKept
  <2>2. PICK a \in {"empty", "sessions"}, t \in 0 .. 1, s \in {"Completed", "Failed"} :
          Put([started EXCEPT !.analytics = a, !.duration = t, !.status = s,
                              !.error_message = IF s = "Failed" THEN "reason" ELSE NULL])
    BY <1>3 DEF SaveOutcome
  <2>3. [started EXCEPT !.analytics = a, !.duration = t, !.status = s,
                        !.error_message = IF s = "Failed" THEN "reason" ELSE NULL] \in ReviewValues
    BY <2>1 DEF ReviewValues, Analytics, Durations, Errors
  <2> QED BY <1>1, <1>3, <2>1, <2>2, <2>3 DEF SaveOutcome, RowKept, KeptBy
<1>4. CASE MarkFailed
  <2>1. entity = "Review" /\ started \in ReviewValues
    BY <1>4 DEF MarkFailed, RowKept
  <2>2. [started EXCEPT !.status = "Failed", !.error_message = "launch"] \in ReviewValues
    BY <2>1 DEF ReviewValues, Errors
  <2> QED BY <1>1, <1>4, <2>1, <2>2 DEF MarkFailed, RowKept, KeptBy
<1>5. CASE LoadValue
  <2>1. page' \in ReviewValues
    BY <1>5, PageIsReview DEF LoadValue, RowKept, KeptBy
  <2> QED BY <1>5, <2>1 DEF LoadValue, RowKept
<1>6. CASE ReconcileRow
  <2>1. entity = "Review" /\ page \in ReviewValues
    BY <1>6 DEF ReconcileRow, RowKept
  <2>2. [page EXCEPT !.status = "Failed", !.error_message = "stale"] \in ReviewValues
    BY <2>1 DEF ReviewValues, Errors
  <2> QED BY <1>1, <1>6, <2>1, <2>2 DEF ReconcileRow, RowKept, KeptBy
<1>7. CASE LetGo
  BY <1>7 DEF LetGo, RowKept
<1>8. CASE UNCHANGED rowVars
  BY <1>8 DEF rowVars, RowKept
<1> QED BY <1>2, <1>3, <1>4, <1>5, <1>6, <1>7, <1>8 DEF RowNext

\* The values by their fields.
LEMMA KeptDomains == \A e \in DOMAIN Entities : \A d \in KeptBy(e) : DOMAIN d = Names(Entities[e])
<1>1. \A d \in ReviewValues : DOMAIN d = Names(Entities["Review"])
  BY NamesOfEntities DEF ReviewValues
<1>2. \A d \in Values("AgentSession") : DOMAIN d = Names(Entities["AgentSession"])
  BY NamesOfEntities DEF Values
<1>3. \A d \in Values("AgentTurn") : DOMAIN d = Names(Entities["AgentTurn"])
  BY NamesOfEntities DEF Values
<1>4. \A d \in Values("PrResult") : DOMAIN d = Names(Entities["PrResult"])
  BY NamesOfEntities DEF Values
<1>5. \A d \in Values("Finding") : DOMAIN d = Names(Entities["Finding"])
  BY NamesOfEntities DEF Values
<1>6. DOMAIN Entities = {"Review", "AgentSession", "AgentTurn", "PrResult", "Finding"}
  BY DEF Entities
<1> QED BY <1>1, <1>2, <1>3, <1>4, <1>5, <1>6 DEF KeptBy

\* What is kept of the row implies its types.
LEMMA RowTyped == RowKept => RowTypeOK
<1> SUFFICES ASSUME RowKept PROVE RowTypeOK
  OBVIOUS
<1>1. \A r \in {started, page} : r = None \/ (entity = "Review" /\ DOMAIN r = Names(Entities.Review))
  BY KeptDomains DEF RowKept, KeptBy, Entities
<1>2. row = NoRow \/ DOMAIN row.scalars = Scalars(entity)
  BY DEF RowKept, ToRow
<1> QED BY <1>1, <1>2, KeptDomains DEF RowKept, RowTypeOK

\* The row of a value gives the value back.
LEMMA RowWhole == RowKept => RowIsWhole
<1> SUFFICES ASSUME RowKept, row # NoRow PROVE RowIsWhole
  BY DEF RowIsWhole, RowReadsBack, ColumnsHoldMetadata
<1>1. row = ToRow(entity, given) /\ given \in KeptBy(entity) /\ entity \in DOMAIN Entities
  BY DEF RowKept
<1>2. entity \in {"Review", "AgentSession", "AgentTurn", "PrResult", "Finding"}
  BY <1>1 DEF Entities
<1>3. RowReadsBack
  BY <1>1, <1>2, ReviewReadsBack, SessionReadsBack, TurnReadsBack, ResultReadsBack, FindingReadsBack
  DEF RowReadsBack, KeptBy
<1>4. ColumnsHoldMetadata
  <2> SUFFICES ASSUME entity = "Review" PROVE FromColumns(row.flat) = Kept(given.metadata)
    BY DEF ColumnsHoldMetadata
  <2>1. row.flat = ToColumns(given.metadata)
    BY <1>1, OnlyReviewsAreFlattened DEF ToRow
  <2>2. given.metadata \in Metadata
    BY <1>1 DEF KeptBy, ReviewValues
  <2> QED BY <2>1, <2>2, MetadataReadsBackFromColumns
<1> QED BY <1>3, <1>4 DEF RowIsWhole

\* A row reads back as the value saved last, but for its children and its key, whatever
\* loads and saves came between, and its metadata's columns hold the metadata
\* (to_row, from_row, to_columns, from_columns).
THEOREM RowsReadBack == RowSpec => []RowIsWhole
<1>1. RowInit => RowKept
  BY ValuesAreKept DEF RowInit, RowKept
<1>2. RowKept /\ [RowNext]_rowVars => RowKept'
  BY RowInductive
<1> QED BY <1>1, <1>2, RowWhole, PTL DEF RowSpec

-----------------------------------------------------------------------------
(* The types of the rest of the store.                                       *)

\* What a sequence over a set holds is of the set.
LEMMA MembersOf ==
  ASSUME NEW S, NEW s \in Seq(S)
  PROVE  ToSet(s) \subseteq S /\ <<>> \in Seq(S)
  BY DEF ToSet

\* The types of the tables and of who writes and reads them.
LEMMA CascadeTypes == CascadeInv => CascadeTypeOK
<1> SUFFICES ASSUME CascadeInv PROVE CascadeTypeOK
  OBVIOUS
<1> USE DEF CascadeInv
<1>1. \A t \in ToSet(turns) : t \in [review : Reviews, agent : Agents, index : 1 .. TurnCount]
  <2>1. ToSet(turns) \subseteq TurnRow
    BY MembersOf DEF TablesAreTyped
  <2> QED BY <2>1 DEF TurnRow
<1>2. \A m \in ToSet(messages) : m \in [turn : DOMAIN turns, agent : Agents, index : 1 .. TurnCount]
  <2> DEFINE M == [turn : Nat, agent : Agents, index : 1 .. TurnCount]
  <2> SUFFICES ASSUME NEW j \in DOMAIN messages
               PROVE  messages[j] \in [turn : DOMAIN turns, agent : Agents, index : 1 .. TurnCount]
    BY DEF ToSet
  <2>1. messages[j] \in M
    <3>1. messages \in Seq(M)
      BY DEF TablesAreTyped
    <3> HIDE DEF M
    <3> QED BY <3>1
  <2>2. messages[j].turn \in DOMAIN turns
    BY DEF TablesAreTyped
  <2> QED BY <2>1, <2>2
<1>3. ASSUME NEW w \in Writers
      PROVE  ToSet(todo[w]) \subseteq Statement /\ review[w] \in Reviews /\ parent[w] \in {0} \cup DOMAIN turns
  <2>1. todo[w] \in Seq(Statement)
    BY DEF WritersAreTyped, Saves
  <2> QED BY <2>1 DEF WritersAreTyped, ToSet
<1>4. ASSUME NEW p \in Loads
      PROVE  /\ load[p].pc \in {"idle", "sessions", "turns", "messages", "check", "save"}
             /\ ToSet(load[p].queue) \subseteq DOMAIN turns
             /\ ToSet(load[p].read) \subseteq Statement
  <2>1. load[p] \in [pc : {"idle", "sessions", "turns", "messages", "check", "save"},
                     status : {"Running", "Completed", "Failed"}, whole : BOOLEAN,
                     queue : Seq(Nat), read : Children]
    BY DEF LoadsAreTyped
  <2>2. load[p].read \in Seq(Statement)
    BY <2>1 DEF Children, Chains
  <2>3. ToSet(load[p].queue) \subseteq DOMAIN turns
    BY DEF LoadsAreTyped, ToSet
  <2>4. ToSet(load[p].read) \subseteq Statement
    BY <2>2 DEF ToSet
  <2> QED BY <2>1, <2>3, <2>4
<1> QED
  BY <1>1, <1>2, <1>3, <1>4 DEF CascadeTypeOK, TablesAreTyped, WritersAreTyped

-----------------------------------------------------------------------------
\* The index on disk and in memory, and a caller without an answer.
IndexIsTyped ==
  /\ indexed \in [Callers -> SUBSET CacheKeys]
  /\ indexFile \in [keys : SUBSET CacheKeys, whole : BOOLEAN]
  /\ \A p \in Callers : call[p].pc \notin Waiting => call[p].answer = 0

\* Only keys are troubled.
TroubledKeys == troubled \subseteq CacheKeys

\* The index starts empty.
LEMMA IndexStarts == CacheInit => IndexIsTyped
  BY DEF CacheInit, IndexIsTyped, NoCall

\* Every step of a caller keeps the index and the answers typed.
LEMMA IndexKeeps == CacheInv /\ IndexIsTyped /\ [CacheNext]_cacheVars => IndexIsTyped'
<1> SUFFICES ASSUME CacheInv, IndexIsTyped, [CacheNext]_cacheVars PROVE IndexIsTyped'
  OBVIOUS
<1>1. call \in [Callers -> [pc : {"idle", "compute"} \cup Waiting, key : {NoCall.key} \cup CacheKeys,
                            answer : Nat]]
      /\ \A p \in Callers : call[p].pc # "idle" => call[p].key \in CacheKeys
  BY DEF CacheInv, CallsAreTyped, States
<1>2. ASSUME NEW p \in Callers, NEW k \in CacheKeys, CacheLoad(p, k) PROVE IndexIsTyped'
  BY <1>1, <1>2 DEF CacheLoad, IndexIsTyped
<1>3. ASSUME NEW p \in Callers, Compute(p) PROVE IndexIsTyped'
  BY <1>1, <1>3 DEF Compute, IndexIsTyped, Waiting
<1>4. ASSUME NEW p \in Callers, Truncate(p) PROVE IndexIsTyped'
  <2>1. CASE call' = [call EXCEPT ![p].pc = "write"]
    BY <1>1, <1>4, <2>1 DEF Truncate, IndexIsTyped, Waiting
  <2>2. CASE call' = [call EXCEPT ![p].pc = "index"]
    BY <1>1, <1>4, <2>2 DEF Truncate, IndexIsTyped, Waiting
  <2> QED BY <1>4, <2>1, <2>2 DEF Truncate
<1>5. ASSUME NEW p \in Callers, WriteText(p) PROVE IndexIsTyped'
  BY <1>1, <1>5 DEF WriteText, IndexIsTyped, Waiting
<1>6. ASSUME NEW p \in Callers, InsertIndex(p) PROVE IndexIsTyped'
  <2>1. call[p].key \in CacheKeys
    BY <1>1, <1>6 DEF InsertIndex
  <2> QED BY <1>1, <1>6, <2>1 DEF InsertIndex, IndexIsTyped, Waiting
<1>7. ASSUME NEW p \in Callers, SaveIndex(p) PROVE IndexIsTyped'
  BY <1>1, <1>7 DEF SaveIndex, IndexIsTyped, NoCall
<1>8. ASSUME NEW p \in Callers, Die(p) PROVE IndexIsTyped'
  BY <1>1, <1>8 DEF Die, IndexIsTyped, NoCall
<1>9. CASE UNCHANGED cacheVars
  BY <1>9 DEF cacheVars, IndexIsTyped
<1> QED
  BY <1>2, <1>3, <1>4, <1>5, <1>6, <1>7, <1>8, <1>9 DEF CacheNext

\* The types of the cache.
LEMMA CacheTypes == CacheInv /\ IndexIsTyped /\ TroubledKeys => CacheTypeOK
<1> SUFFICES ASSUME CacheInv, IndexIsTyped, TroubledKeys, NEW p \in Callers
             PROVE  Len(asked) \in 0 .. MaxComputed /\ call[p].answer \in 0 .. Len(asked)
  BY DEF CacheInv, CallsAreTyped, BlocksInPlace, IndexIsTyped, TroubledKeys, CacheTypeOK
<1>1. Len(asked) \in 0 .. MaxComputed
  BY CacheAssumption DEF CacheAssumption, CacheInv, CallsAreTyped
<1>2. call[p].answer \in 0 .. Len(asked)
  BY <1>1 DEF CacheInv, CallsAreTyped, IndexIsTyped
<1> QED
  BY <1>1, <1>2

\* What fails, and who dies, was asked for a key.
LEMMA TroubleIsKeys ==
  /\ CacheInit => TroubledKeys
  /\ CacheInv /\ TroubledKeys /\ [CacheNext]_cacheVars => TroubledKeys'
<1> USE DEF TroubledKeys
<1>1. CacheInit => TroubledKeys
  BY DEF CacheInit
<1>2. ASSUME CacheInv, TroubledKeys, [CacheNext]_cacheVars
      PROVE  TroubledKeys'
  <2>1. \A p \in Callers : call[p].pc # "idle" => call[p].key \in CacheKeys
    BY <1>2 DEF CacheInv, CallsAreTyped
  <2>2. ASSUME NEW p \in Callers, NEW k \in CacheKeys, CacheLoad(p, k) PROVE troubled' \subseteq CacheKeys
    BY <1>2, <2>1, <2>2 DEF CacheLoad
  <2>3. ASSUME NEW p \in Callers, Compute(p) \/ InsertIndex(p) \/ SaveIndex(p)
        PROVE  troubled' \subseteq CacheKeys
    BY <1>2, <2>3 DEF Compute, InsertIndex, SaveIndex
  <2>4. ASSUME NEW p \in Callers, Truncate(p) \/ WriteText(p) \/ Die(p)
        PROVE  troubled' \subseteq CacheKeys
    BY <1>2, <2>1, <2>4 DEF Truncate, WriteText, Die
  <2> QED
    BY <1>2, <2>2, <2>3, <2>4 DEF CacheNext, cacheVars
<1> QED
  BY <1>1, <1>2

-----------------------------------------------------------------------------
\* The files, and the pull requests a benchmark has left and has reviewed.
AssetsAreTyped ==
  /\ clone \in {"none", "part", "whole"}
  /\ worktree \in [Prs -> {"none", "part", "whole"}]
  /\ diff \in [Prs -> {"none", "empty", "part", "whole"}]
  /\ refs \in [{"merge", "head"} -> SUBSET Prs]
  /\ \A b \in Benches :
       /\ bench[b].left \in Seq(Prs) /\ bench[b].outcomes \in Seq(ToSet(Chosen[b]))
       /\ \A p \in Prs : bench[b].task[p].pc # "none" => p \in ToSet(Chosen[b])

\* The assets start typed.
LEMMA AssetTypesStart == AssetInit => AssetsAreTyped
<1> SUFFICES ASSUME AssetInit, NEW b \in Benches
             PROVE  bench[b].left \in Seq(Prs) /\ bench[b].outcomes \in Seq(ToSet(Chosen[b]))
  BY DEF AssetInit, AssetsAreTyped, Resting, NoTask
<1>1. bench[b] = Resting /\ Resting.left = <<>> /\ Resting.outcomes = <<>>
  BY DEF AssetInit, Resting
<1>2. <<>> \in Seq(Prs) /\ <<>> \in Seq(ToSet(Chosen[b]))
  OBVIOUS
<1> QED
  BY <1>1, <1>2

\* A step of a benchmark's preparation leaves it with less, or with a list of its own.
LEMMA GoOnTypes ==
  ASSUME AssetInv, AssetsAreTyped, NEW b \in Benches, NEW stop, NEW left \in Seq(Prs), GoOn(b, stop, left)
  PROVE  \A c \in Benches :
           /\ bench'[c].left \in Seq(Prs) /\ bench'[c].outcomes \in Seq(ToSet(Chosen[c]))
           /\ \A p \in Prs : bench'[c].task[p].pc # "none" => p \in ToSet(Chosen[c])
<1> SUFFICES ASSUME NEW c \in Benches
             PROVE  /\ bench'[c].left \in Seq(Prs) /\ bench'[c].outcomes = bench[c].outcomes
                    /\ bench'[c].task = bench[c].task
  BY DEF AssetsAreTyped
<1>1. bench' = [bench EXCEPT ![b] = [bench[b] EXCEPT !.pc = stop, !.left = left]]
  BY DEF GoOn, AssetInv, BenchesAreWhole
<1> QED
  BY <1>1 DEF AssetInv, BenchesAreWhole, AssetsAreTyped

\* What is first on a list, and what is left of it, are of the dataset.
LEMMA NextInList ==
  ASSUME AssetInv, AssetsAreTyped, NEW b \in Benches, bench[b].left # <<>>
  PROVE  Now(b) \in Prs /\ Next_(b) \in Seq(Prs) /\ bench[b].left \in Seq(Prs)
  BY DEF AssetsAreTyped, Now, Next_

\* The dataset is a list of pull requests.
LEMMA DatasetType == Dataset \in Seq(Prs) /\ <<>> \in Seq(Prs)
  BY AssetsAssumption DEF AssetsAssumption, Prs

\* scaffold::run and the listing keep the types.
LEMMA PreparingTypes ==
  ASSUME AssetInv, AssetsAreTyped, NEW b \in Benches,
         StartBench(b) \/ CloneBegins(b) \/ CloneEnds(b) \/ FetchRef(b) \/ ListRefs(b)
  PROVE  AssetsAreTyped'
<1> DEFINE Typed == \A c \in Benches :
             /\ bench'[c].left \in Seq(Prs) /\ bench'[c].outcomes \in Seq(ToSet(Chosen[c]))
             /\ \A p \in Prs : bench'[c].task[p].pc # "none" => p \in ToSet(Chosen[c])
<1>1. CASE StartBench(b)
  <2>1. Typed
    BY <1>1, GoOnTypes, DatasetType DEF StartBench
  <2> QED BY <1>1, <2>1 DEF StartBench, files, AssetsAreTyped
<1>2. CASE CloneBegins(b)
  <2>1. Typed
    BY <1>2, GoOnTypes, DatasetType DEF CloneBegins
  <2> QED BY <1>2, <2>1 DEF CloneBegins, AssetsAreTyped
<1>3. CASE CloneEnds(b)
  <2>1. Typed
    BY <1>3, GoOnTypes, DatasetType DEF CloneEnds
  <2> QED BY <1>3, <2>1 DEF CloneEnds, AssetsAreTyped
<1>4. CASE FetchRef(b)
  <2>1. Typed
    BY <1>4, GoOnTypes, DatasetType, NextInList DEF FetchRef
  <2>2. refs' \in [{"merge", "head"} -> SUBSET Prs]
    <3>1. CASE UNCHANGED refs
      BY <3>1 DEF AssetsAreTyped
    <3>2. CASE bench[b].left # <<>> /\ \E k \in DOMAIN refs : refs' = [refs EXCEPT ![k] = @ \cup {Now(b)}]
      <4>1. Now(b) \in Prs
        BY <3>2, NextInList
      <4> QED BY <3>2, <4>1 DEF AssetsAreTyped
    <3> QED BY <1>4, <3>1, <3>2 DEF FetchRef
  <2> QED BY <1>4, <2>1, <2>2 DEF FetchRef, AssetsAreTyped
<1>5. CASE ListRefs(b)
  <2> DEFINE I == {i \in DOMAIN Dataset : Dataset[i] \in Listed}
  <2>1. Picked(Dataset, I) \in Seq(Prs)
    BY DatasetType, PickedPlaces
  <2>2. Typed
    BY <1>5, <2>1, GoOnTypes DEF ListRefs
  <2> QED BY <1>5, <2>2 DEF ListRefs, files, AssetsAreTyped
<1> QED
  BY <1>1, <1>2, <1>3, <1>4, <1>5

\* diffs::run keeps the types.
LEMMA ExtractingTypes ==
  ASSUME AssetInv, AssetsAreTyped, NEW b \in Benches,
         Extract(b) \/ WorktreeAdded(b) \/ GitDiff(b) \/ WriteDiff(b)
  PROVE  AssetsAreTyped'
<1> DEFINE Typed == \A c \in Benches :
             /\ bench'[c].left \in Seq(Prs) /\ bench'[c].outcomes \in Seq(ToSet(Chosen[c]))
             /\ \A p \in Prs : bench'[c].task[p].pc # "none" => p \in ToSet(Chosen[c])
<1>1. bench[b].left # <<>>
  BY DEF Extract, WorktreeAdded, GitDiff, WriteDiff, At_, AssetInv, BenchesAreWhole
<1>2. Now(b) \in Prs /\ Next_(b) \in Seq(Prs) /\ bench[b].left \in Seq(Prs) /\ <<>> \in Seq(Prs)
  BY <1>1, NextInList, DatasetType
<1>3. UNCHANGED bench => Typed
  BY DEF AssetsAreTyped
<1>4. \A stop, left : left \in Seq(Prs) /\ GoOn(b, stop, left) => Typed
  BY GoOnTypes
<1> HIDE DEF Typed
<1>5. CASE Extract(b)
  <2>1. Typed
    BY <1>2, <1>4, <1>5 DEF Extract
  <2>2. worktree' \in [Prs -> {"none", "part", "whole"}]
    BY <1>2, <1>5 DEF Extract, AssetsAreTyped
  <2> QED BY <1>5, <2>1, <2>2 DEF Extract, AssetsAreTyped, Typed
<1>6. CASE WorktreeAdded(b)
  <2>1. Typed
    BY <1>2, <1>4, <1>6 DEF WorktreeAdded
  <2>2. worktree' \in [Prs -> {"none", "part", "whole"}]
    BY <1>2, <1>6 DEF WorktreeAdded, AssetsAreTyped
  <2> QED BY <1>6, <2>1, <2>2 DEF WorktreeAdded, AssetsAreTyped, Typed
<1>7. CASE GitDiff(b)
  <2>1. Typed
    BY <1>2, <1>4, <1>7 DEF GitDiff
  <2>2. diff' \in [Prs -> {"none", "empty", "part", "whole"}]
    BY <1>2, <1>7 DEF GitDiff, AssetsAreTyped
  <2> QED BY <1>7, <2>1, <2>2 DEF GitDiff, AssetsAreTyped, Typed
<1>8. CASE WriteDiff(b)
  <2>1. Typed
    BY <1>2, <1>3, <1>4, <1>8 DEF WriteDiff
  <2>2. diff' \in [Prs -> {"none", "empty", "part", "whole"}]
    BY <1>2, <1>8 DEF WriteDiff, AssetsAreTyped
  <2> QED BY <1>8, <2>1, <2>2 DEF WriteDiff, AssetsAreTyped, Typed
<1> QED
  BY <1>5, <1>6, <1>7, <1>8

\* The place of a pull request in the selection is a number.
LEMMA OrderIsPlace ==
  ASSUME NEW b \in Benches, NEW p \in ToSet(Chosen[b])
  PROVE  Order(b, p) \in Int
<1>1. Chosen[b] \in Seq(ToSet(Dataset))
  BY AssetsAssumption DEF AssetsAssumption, Benches
<1>2. \E i \in DOMAIN Chosen[b] : Chosen[b][i] = p
  BY DEF ToSet
<1>3. Order(b, p) \in DOMAIN Chosen[b]
  BY <1>2 DEF Order
<1>4. DOMAIN Chosen[b] = 1 .. Len(Chosen[b]) /\ Len(Chosen[b]) \in Nat
  BY <1>1
<1> QED
  BY <1>3, <1>4

\* The reviews of a benchmark keep the types.
LEMMA ReviewingTypes ==
  ASSUME AssetInv, AssetsAreTyped, NEW b \in Benches,
         SpawnPrs(b) \/ SortOutcomes(b)
           \/ \E p \in Prs : ReadDiff(b, p) \/ FindRoot(b, p) \/ JoinPr(b, p)
  PROVE  AssetsAreTyped'
<1> DEFINE Fits(r) ==
             /\ r.left \in Seq(Prs) /\ r.outcomes \in Seq(ToSet(Chosen[b]))
             /\ \A p \in Prs : r.task[p].pc # "none" => p \in ToSet(Chosen[b])
<1>1. UNCHANGED files
  BY DEF SpawnPrs, SortOutcomes, ReadDiff, FindRoot, JoinPr
<1>2. SUFFICES Fits(bench'[b]) /\ \A c \in Benches \ {b} : bench'[c] = bench[c]
  BY <1>1 DEF AssetsAreTyped, files
<1>3. DOMAIN bench = Benches /\ Fits(bench[b])
      /\ DOMAIN bench[b] = {"pc", "left", "task", "outcomes"}
      /\ DOMAIN bench[b].task = Prs
      /\ \A p \in Prs : DOMAIN bench[b].task[p] = {"pc", "diff", "root", "excused"}
  BY DEF AssetInv, BenchesAreWhole, AssetsAreTyped
<1>4. CASE SpawnPrs(b)
  <2> DEFINE T == [p \in Prs |-> IF p \in ToSet(Chosen[b]) THEN [NoTask EXCEPT !.pc = "diff"] ELSE NoTask]
  <2>1. bench' = [bench EXCEPT ![b] = [bench[b] EXCEPT !.pc = "review", !.task = T]]
    BY <1>3, <1>4 DEF SpawnPrs
  <2>2. \A p \in Prs : T[p].pc # "none" => p \in ToSet(Chosen[b])
    BY DEF NoTask
  <2> HIDE DEF T
  <2> QED BY <1>3, <2>1, <2>2
<1>5. CASE SortOutcomes(b)
  <2> DEFINE o == bench[b].outcomes
             key == [i \in DOMAIN o |-> Order(b, o[i])]
  <2>1. bench' = [bench EXCEPT ![b] = [bench[b] EXCEPT !.pc = "done", !.outcomes = SortedBy(o, key)]]
    BY <1>3, <1>5 DEF SortOutcomes
  <2>2. \A i \in DOMAIN o : key[i] \in Int
    <3> SUFFICES ASSUME NEW i \in DOMAIN o PROVE Order(b, o[i]) \in Int
      OBVIOUS
    <3>1. o[i] \in ToSet(Chosen[b])
      BY <1>3
    <3> QED BY <3>1, OrderIsPlace
  <2>3. o \in Seq(ToSet(Chosen[b]))
    BY <1>3
  <2> HIDE DEF key, o
  <2>4. SortedBy(o, key) \in Seq(ToSet(Chosen[b]))
    BY <2>2, <2>3, SortedMembers
  <2> QED BY <1>3, <2>1, <2>4
<1>6. ASSUME NEW p \in Prs, NEW t, Step(b, p, t), p \in ToSet(Chosen[b])
      PROVE  Fits(bench'[b]) /\ \A c \in Benches \ {b} : bench'[c] = bench[c]
  <2>1. bench' = [bench EXCEPT ![b] = [bench[b] EXCEPT !.task = [bench[b].task EXCEPT ![p] = t]]]
    BY <1>3, <1>6 DEF Step
  <2> QED BY <1>3, <1>6, <2>1
<1>7. ASSUME NEW p \in Prs, ReadDiff(b, p)
      PROVE  Fits(bench'[b]) /\ \A c \in Benches \ {b} : bench'[c] = bench[c]
  <2>1. p \in ToSet(Chosen[b]) /\ \E t : Step(b, p, t)
    BY <1>3, <1>7 DEF ReadDiff
  <2> QED BY <1>6, <2>1
<1>8. ASSUME NEW p \in Prs, FindRoot(b, p)
      PROVE  Fits(bench'[b]) /\ \A c \in Benches \ {b} : bench'[c] = bench[c]
  <2>1. p \in ToSet(Chosen[b]) /\ \E t : Step(b, p, t)
    BY <1>3, <1>8 DEF FindRoot
  <2> QED BY <1>6, <2>1
<1>9. ASSUME NEW p \in Prs, JoinPr(b, p)
      PROVE  Fits(bench'[b]) /\ \A c \in Benches \ {b} : bench'[c] = bench[c]
  <2> DEFINE s == IF bench[b].task[p].pc = "reviewed" THEN "joined" ELSE "dropped"
             o == IF bench[b].task[p].pc = "reviewed" THEN Append(bench[b].outcomes, p) ELSE bench[b].outcomes
             T == [bench[b].task EXCEPT ![p] = [bench[b].task[p] EXCEPT !.pc = s]]
  <2>1. p \in ToSet(Chosen[b])
    BY <1>3, <1>9 DEF JoinPr
  <2>2. o \in Seq(ToSet(Chosen[b]))
    <3>1. bench[b].outcomes \in Seq(ToSet(Chosen[b]))
      BY <1>3
    <3>2. Append(bench[b].outcomes, p) \in Seq(ToSet(Chosen[b]))
      BY <2>1, <3>1, AppendProperties
    <3> QED BY <3>1, <3>2
  <2>3. \A q \in Prs : T[q].pc # "none" => q \in ToSet(Chosen[b])
    BY <1>3, <2>1
  <2>4. bench' = [bench EXCEPT ![b] = [bench[b] EXCEPT !.task = T, !.outcomes = o]]
    BY <1>3, <1>9 DEF JoinPr
  <2> HIDE DEF T, o
  <2> QED BY <1>3, <2>2, <2>3, <2>4
<1> QED
  BY <1>4, <1>5, <1>7, <1>8, <1>9

\* Every step keeps the types of the assets.
LEMMA AssetTypesKeep == AssetInv /\ AssetsAreTyped /\ [AssetNext]_assetVars => AssetsAreTyped'
<1> SUFFICES ASSUME AssetInv, AssetsAreTyped, [AssetNext]_assetVars PROVE AssetsAreTyped'
  OBVIOUS
<1>1. CASE Killed
  <2>1. \A b \in Benches : bench'[b] = Resting
    BY <1>1 DEF Killed
  <2>2. \A b \in Benches : Resting.left \in Seq(Prs) /\ Resting.outcomes \in Seq(ToSet(Chosen[b]))
    BY DEF Resting
  <2>3. \A p \in Prs : Resting.task[p].pc = "none"
    BY DEF Resting, NoTask
  <2> QED BY <1>1, <2>1, <2>2, <2>3 DEF Killed, files, AssetsAreTyped
<1>2. CASE UNCHANGED assetVars
  BY <1>2 DEF assetVars, files, AssetsAreTyped
<1>3. ASSUME NEW b \in Benches,
             \/ StartBench(b) \/ CloneBegins(b) \/ CloneEnds(b) \/ FetchRef(b) \/ ListRefs(b)
             \/ Extract(b) \/ WorktreeAdded(b) \/ GitDiff(b) \/ WriteDiff(b) \/ SpawnPrs(b)
             \/ SortOutcomes(b)
             \/ \E p \in Prs : ReadDiff(b, p) \/ FindRoot(b, p) \/ JoinPr(b, p)
      PROVE  AssetsAreTyped'
  BY <1>3, PreparingTypes, ExtractingTypes, ReviewingTypes
<1> QED
  BY <1>1, <1>2, <1>3 DEF AssetNext

\* The types of the assets.
LEMMA AssetTypes == AssetInv /\ AssetsAreTyped => AssetTypeOK
<1> SUFFICES ASSUME AssetInv, AssetsAreTyped PROVE AssetTypeOK
  OBVIOUS
<1>1. Range(worktree) \subseteq {"none", "part", "whole"}
  BY DEF AssetsAreTyped, Range
<1>2. Range(diff) \subseteq {"none", "empty", "part", "whole"}
  BY DEF AssetsAreTyped, Range
<1>3. ASSUME NEW b \in Benches
      PROVE  ToSet(bench[b].left) \cup ToSet(bench[b].outcomes) \subseteq Prs
  <2>1. ToSet(Chosen[b]) \subseteq Prs
    BY AssetsAssumption, MembersOf DEF AssetsAssumption, Benches, Prs
  <2>2. ToSet(bench[b].left) \subseteq Prs /\ ToSet(bench[b].outcomes) \subseteq ToSet(Chosen[b])
    BY MembersOf DEF AssetsAreTyped
  <2> QED BY <2>1, <2>2
<1> QED
  BY <1>1, <1>2, <1>3 DEF AssetsAreTyped, AssetTypeOK

-----------------------------------------------------------------------------
(* The store.                                                               *)

\* A step of the store is a step of one of its parts, and none of the others.
THEOREM StorageIsItsParts ==
  StorageSpec => Spec /\ CascadeSpec /\ RowSpec /\ CacheSpec /\ AssetSpec
<1>1. StorageInit => Init /\ CascadeInit /\ RowInit /\ CacheInit /\ AssetInit
  BY DEF StorageInit
<1>2. [StorageNext]_storageVars =>
        [Next]_vars /\ [CascadeNext]_cascadeVars /\ [RowNext]_rowVars
          /\ [CacheNext]_cacheVars /\ [AssetNext]_assetVars
  BY DEF StorageNext, storageVars
<1> QED
  BY <1>1, <1>2, PTL DEF StorageSpec, Spec, CascadeSpec, RowSpec, CacheSpec, AssetSpec

\* Whatever part runs, its state and that of the others stay typed (StorageTypeOK).
THEOREM StorageTypes == StorageSpec => []StorageTypeOK
<1>1. Spec => []TypeOK
  <2>1. IInv => TypeOK
    BY DEF IInv
  <2> QED BY <2>1, SpecIInv, PTL
<1>2. CascadeSpec => []CascadeTypeOK
  BY CascadeStarts, CascadeKeeps, CascadeTypes, PTL DEF CascadeSpec
<1>3. RowSpec => []RowTypeOK
  <2>1. RowInit => RowKept
    BY ValuesAreKept DEF RowInit, RowKept
  <2> QED BY <2>1, RowInductive, RowTyped, PTL DEF RowSpec
<1>4. CacheSpec => []CacheTypeOK
  BY CacheStarts, CacheSteps, IndexStarts, IndexKeeps, TroubleIsKeys, CacheTypes, PTL DEF CacheSpec
<1>5. AssetSpec => []AssetTypeOK
  BY AssetsStart, AssetSteps, AssetTypesStart, AssetTypesKeep, AssetTypes, PTL DEF AssetSpec
<1>6. TypeOK /\ CascadeTypeOK /\ RowTypeOK /\ CacheTypeOK /\ AssetTypeOK => StorageTypeOK
  BY DEF StorageTypeOK
<1> QED
  BY <1>1, <1>2, <1>3, <1>4, <1>5, <1>6, StorageIsItsParts, PTL

\* The store keeps every promise of its parts: no version is recorded ahead of the
\* schema, a review's rows hang together and are read whole, a row reads back as it was
\* saved, the cache answers what it was asked and only whole assets are reviewed.
THEOREM StorageIsWhole ==
  StorageSpec =>
    [](/\ RecordedIsApplied /\ FailsOnlyBehind /\ OpenIsMigrated
       /\ CascadeIsWhole /\ RowIsWhole /\ CacheIsSound /\ AssetsAreReady)
BY StorageIsItsParts, NoVersionAhead, FailureNeedsARace, OpenedStoreIsCurrent,
   CascadeStaysWhole, RowsReadBack, CacheStaysSound, HalvesAreExcused, PTL

=============================================================================
