------------------------------ MODULE CliProofs ------------------------------
(***************************************************************************)
(* Proofs about the commands of the CLI.  Rollout, for any operators,        *)
(* branches, runtimes and percentages: the invariant says, command by        *)
(* command, what was read and how the mapping to write was made from it.     *)
(* BuildCommand, for any commands, options, projects, limit of versions and  *)
(* number of attempts: CommandInv says whose version of a platform is        *)
(* written, what of a command is started, and what its queries told.         *)
(***************************************************************************)
EXTENDS Rollout, BuildCommand, SequenceTheorems, TLAPS

\* A mapping the channel can have: a rollout constrained by a runtime names one.
Sound(m) ==
  /\ m \in Mappings
  /\ IsConstrained(m) => m[1].logic.runtime \in Runtimes

\* The mapping to write, once the questions are answered.
Made(o) ==
  /\ cmd[o] = "create" /\ pc[o] # "ask" =>
       \E b \in Branches, r \in Runtimes, p \in 0..100 :
         next[o] = CreateMapping(Default(seen[o]), b, r, p)
  /\ cmd[o] = "edit" /\ pc[o] = "confirm" =>
       \E p \in 0..100 : next[o] = EditMapping(seen[o], p)
  /\ cmd[o] = "end" /\ pc[o] \in {"confirm", "republish", "revert"} =>
       next[o] = Standard(Default(seen[o]))

\* What the command has read.
HasRead(o) ==
  /\ cmd[o] = "create" => IsStandard(info[o]) /\ seen[o] = info[o]
  /\ cmd[o] = "end" => IsRollout(info[o])
  /\ cmd[o] \in {"edit", "end"} => IsRollout(seen[o])
  /\ cmd[o] = "point" => ~IsRollout(seen[o])

\* The group chosen, and that it is served once it is republished.
Chosen(o) ==
  /\ pc[o] \in {"republish", "revert"} => cmd[o] = "end" /\ group[o] # None
  /\ group[o] # None =>
       /\ cmd[o] = "end"
       /\ info[o] = seen[o] => Targets(seen[o], group[o].runtime)
  /\ pc[o] = "revert" /\ ~overtaken[o] =>
       newest[Default(seen[o])][group[o].runtime] = group[o].content

OpInv(o) ==
  /\ Sound(info[o]) /\ Sound(seen[o]) /\ Sound(next[o])
  /\ cmd[o] = None <=> pc[o] = "idle"
  /\ Made(o) /\ HasRead(o) /\ Chosen(o)

IInv ==
  /\ TypeOK
  /\ Sound(mapping)
  /\ \A o \in Operators : OpInv(o)

-----------------------------------------------------------------------------
(* The operators on mappings.                                              *)

\* The mapping of a channel that points nowhere.
LEMMA EmptyIs == <<>> \in Mappings /\ Sound(<<>>)
BY DEF Mappings, Sound, IsConstrained

\* The mappings the commands write have their shape.
LEMMA StandardIs ==
  ASSUME NEW b \in Branches
  PROVE  /\ Sound(Standard(b)) /\ IsStandard(Standard(b)) /\ ~IsRollout(Standard(b))
         /\ Default(Standard(b)) = b
BY DEF Sound, Standard, Mappings, Node, AlwaysTrue, Logics, IsStandard, IsRollout,
       IsLegacy, IsConstrained, Default

\* createRolloutBranchMapping makes a rollout of its four arguments.
LEMMA CreateIs ==
  ASSUME NEW d \in Branches, NEW b \in Branches, NEW r \in Runtimes, NEW p \in 0..100
  PROVE  LET m == CreateMapping(d, b, r, p)
         IN  /\ Sound(m) /\ IsRollout(m) /\ IsConstrained(m) /\ ~IsLegacy(m)
             /\ Default(m) = d /\ RolledOut(m) = b
             /\ m[1].logic.percent = p /\ m[1].logic.runtime = r
BY DEF Sound, CreateMapping, Mappings, Node, AlwaysTrue, RtvAndHash, Logics,
       IsRollout, IsLegacy, IsConstrained, Default, RolledOut

\* What creating a rollout leaves for the devices outside of it.
LEMMA CreateFallsBack ==
  ASSUME NEW d \in Branches, NEW b, NEW r, NEW p
  PROVE  Default(CreateMapping(d, b, r, p)) = d
BY DEF CreateMapping, Default, Node

\* A mapping that is not empty has a default branch.
LEMMA DefaultIs ==
  ASSUME NEW m \in Mappings, Len(m) > 0
  PROVE  /\ Default(m) \in Branches
         /\ m[1] \in [branch : Branches, logic : Logics]
         /\ m[Len(m)] \in [branch : Branches, logic : Logics]
<1>1. Len(m) \in 1..Len(m) /\ 1 \in 1..Len(m)
  BY DEF Mappings
<1> DEFINE S == [branch : Branches, logic : Logics]
<1>2. m \in Seq(S)
  BY DEF Mappings
<1>3. m[Len(m)] \in S /\ m[1] \in S
  <2> HIDE DEF S
  <2> QED BY <1>1, <1>2, ElementOfSeq
<1> QED BY <1>3 DEF Default

\* editRolloutBranchMapping changes the percentage and nothing else.
LEMMA EditIs ==
  ASSUME NEW m, Sound(m), IsRollout(m), NEW p \in 0..100
  PROVE  LET n == EditMapping(m, p)
         IN  /\ Sound(n) /\ IsRollout(n)
             /\ Default(n) = Default(m) /\ RolledOut(n) = RolledOut(m)
             /\ n[1].logic.percent = p
             /\ \A r \in Runtimes : Targets(n, r) <=> Targets(m, r)
<1> DEFINE n == EditMapping(m, p)
<1>1. m \in Mappings /\ Len(m) = 2 /\ m[2].logic.type = "true"
      /\ m[1] \in [branch : Branches, logic : Logics]
      /\ m[2] \in [branch : Branches, logic : Logics]
  <2>1. m \in Mappings /\ Len(m) = 2 /\ m[2].logic.type = "true"
    BY DEF Sound, IsRollout, IsLegacy, IsConstrained
  <2>2. Len(m) > 0
    BY <2>1
  <2>3. /\ m[1] \in [branch : Branches, logic : Logics]
        /\ m[Len(m)] \in [branch : Branches, logic : Logics]
    BY <2>1, <2>2, DefaultIs, Zenon
  <2> QED BY <2>1, <2>3
<1>2. CASE IsConstrained(m)
  <2>1. n = <<Node(m[1].branch, RtvAndHash(m[1].logic.runtime, p)), m[2]>>
    BY <1>2 DEF EditMapping, RolledOut
  <2>2. n \in Mappings
    BY <1>1, <2>1 DEF Node, RtvAndHash, Mappings, Logics
  <2>3. Len(n) = 2 /\ n[1].branch = m[1].branch /\ n[1].logic.type = "and"
        /\ n[1].logic.runtime = m[1].logic.runtime /\ n[1].logic.percent = p /\ n[2] = m[2]
    BY <2>1 DEF Node, RtvAndHash
  <2> QED BY <1>1, <1>2, <2>2, <2>3 DEF Sound, IsRollout, IsConstrained, IsLegacy,
               Default, RolledOut, Targets
<1>3. CASE ~IsConstrained(m)
  <2>1. n = <<Node(m[1].branch, HashLt(p)), m[2]>> /\ IsLegacy(m)
    BY <1>3 DEF EditMapping, RolledOut, IsRollout
  <2>2. n \in Mappings
    BY <1>1, <2>1 DEF Node, HashLt, Mappings, Logics
  <2>3. Len(n) = 2 /\ n[1].branch = m[1].branch /\ n[1].logic.type = "hash_lt"
        /\ n[1].logic.percent = p /\ n[2] = m[2]
    BY <2>1 DEF Node, HashLt
  <2> QED BY <1>1, <1>3, <2>1, <2>2, <2>3 DEF Sound, IsRollout, IsConstrained,
               IsLegacy, Default, RolledOut, Targets
<1> QED BY <1>2, <1>3

\* A mapping with a default branch is not empty.
LEMMA RolloutIs ==
  ASSUME NEW m, IsRollout(m) \/ IsStandard(m)
  PROVE  Len(m) > 0
BY DEF IsRollout, IsStandard, IsLegacy, IsConstrained

\* The newest group has the runtime it was asked for.
LEMMA LatestIs ==
  ASSUME TypeOK, NEW b \in Branches, NEW r \in Runtimes \cup {None},
         LatestGroup(b, r) # None
  PROVE  LET g == LatestGroup(b, r)
         IN  g \in Groups /\ (r # None => g.runtime = r)
<1> USE RolloutAssumption
<1> DEFINE rr == IF r = None THEN top[b] ELSE r
<1>1. rr \in Runtimes /\ newest[b][rr] \in 1..MaxUpdates
      /\ LatestGroup(b, r) = [runtime |-> rr, content |-> newest[b][rr]]
  BY DEF TypeOK, LatestGroup
<1> QED BY <1>1 DEF Groups
-----------------------------------------------------------------------------
(* The invariant.                                                          *)

\* The channel a command first finds satisfies the invariant.
THEOREM InitIInv == Init => IInv
<1> SUFFICES ASSUME Init PROVE IInv
  OBVIOUS
<1> USE RolloutAssumption
<1>0. <<>> \in Mappings /\ Len(<<>>) = 0 /\ Sound(<<>>)
  BY DEF Mappings, Sound, IsConstrained
<1>1. Sound(mapping)
  <2>1. CASE mapping = <<>> BY <1>0, <2>1
  <2>2. ASSUME NEW b \in Branches, mapping = Standard(b) PROVE Sound(mapping)
    BY <2>2, StandardIs
  <2>3. ASSUME NEW b \in Branches, mapping = <<Node(b, OtherLogic)>> PROVE Sound(mapping)
    BY <2>3 DEF Sound, Mappings, Node, OtherLogic, Logics, IsConstrained
  <2>4. ASSUME NEW d \in Branches, NEW b \in Branches, NEW p \in 0..100,
               mapping = <<Node(b, HashLt(p)), Node(d, AlwaysTrue)>>
        PROVE  Sound(mapping)
    BY <2>4 DEF Sound, Mappings, Node, HashLt, AlwaysTrue, Logics, IsConstrained
  <2>5. CASE \E b, d \in Branches, p \in 0..100 :
               mapping = <<Node(b, HashLt(p)), Node(d, AlwaysTrue)>>
    BY <2>4, <2>5
  <2>6. \/ mapping = <<>>
        \/ \E b \in Branches : mapping = Standard(b)
        \/ \E b \in Branches : mapping = <<Node(b, OtherLogic)>>
        \/ \E b, d \in Branches, p \in 0..100 :
             mapping = <<Node(b, HashLt(p)), Node(d, AlwaysTrue)>>
    <3> DEFINE Legacy == {<<Node(b, HashLt(p)), Node(d, AlwaysTrue)>> :
                            b \in Branches, d \in Branches, p \in Percents \cap 0..100}
    <3>1. mapping \in Legacy =>
            \E b, d \in Branches, p \in 0..100 :
              mapping = <<Node(b, HashLt(p)), Node(d, AlwaysTrue)>>
      OBVIOUS
    <3>2. \/ mapping = <<>>
          \/ mapping \in {Standard(b) : b \in Branches}
          \/ mapping \in {<<Node(b, OtherLogic)>> : b \in Branches}
          \/ mapping \in Legacy
      <4> HIDE DEF Legacy
      <4>1. mapping \in {<<>>} \cup {Standard(b) : b \in Branches}
              \cup {<<Node(b, OtherLogic)>> : b \in Branches}
              \cup {m \in Legacy : RolledOut(m) # Default(m)}
        BY DEF Init, Legacy
      <4> QED BY <4>1
    <3>3. mapping \in {Standard(b) : b \in Branches} => \E b \in Branches : mapping = Standard(b)
      OBVIOUS
    <3>4. mapping \in {<<Node(b, OtherLogic)>> : b \in Branches} =>
            \E b \in Branches : mapping = <<Node(b, OtherLogic)>>
      OBVIOUS
    <3> HIDE DEF Legacy
    <3> QED BY <3>1, <3>2, <3>3, <3>4
  <2> QED BY <2>1, <2>2, <2>3, <2>5, <2>6
<1>2. TypeOK
  BY <1>0, <1>1 DEF Init, TypeOK, PCs, Sound
<1>3. ASSUME NEW o \in Operators
      PROVE  OpInv(o)
  BY <1>0 DEF Init, OpInv, Made, HasRead, Chosen
<1> QED BY <1>1, <1>2, <1>3 DEF IInv

\* Nothing of operator x has changed, nor of the update groups.
Same(x) ==
  /\ pc'[x] = pc[x] /\ cmd'[x] = cmd[x] /\ info'[x] = info[x] /\ seen'[x] = seen[x]
  /\ group'[x] = group[x] /\ next'[x] = next[x] /\ overtaken'[x] = overtaken[x]

\* An operator whose locals are left alone keeps its part of the invariant.
LEMMA OtherKeeps ==
  ASSUME NEW x, OpInv(x), Same(x), UNCHANGED newest
  PROVE  OpInv(x)'
BY DEF OpInv, Same, Made, HasRead, Chosen

\* A step of o keeps the invariant when it keeps the parts of o.
LEMMA OthersKeep ==
  ASSUME IInv, NEW o \in Operators, UNCHANGED newest,
         \A x \in Operators \ {o} : Same(x),
         OpInv(o)', TypeOK', Sound(mapping)'
  PROVE  IInv'
BY OtherKeeps DEF IInv

\* A command that begins has read a mapping it admits.
LEMMA BeginKeeps ==
  ASSUME IInv, NEW o \in Operators, NEW c \in Commands, Begin(o, c)
  PROVE  IInv'
<1> USE RolloutAssumption
<1> DEFINE g == LatestGroup(RolledOut(mapping), None)
<1>1. /\ pc[o] = "idle" /\ cmd[o] = None /\ group[o] = None /\ c # None
      /\ Admits(c, mapping) /\ Sound(mapping)
  BY DEF Begin, IInv, OpInv, Chosen, Commands
<1>2. CASE c = "end" /\ IsLegacy(mapping)
  <2>1. RolledOut(mapping) \in Branches
    BY <1>1, <1>2, RolloutIs, DefaultIs DEF IsRollout, Sound, RolledOut
  <2>2. g # None => g \in Groups
    BY <2>1, LatestIs DEF IInv
  <2>3. g # None => Targets(mapping, g.runtime)
    BY <1>2 DEF Targets
  <2> HIDE DEF g
  <2>4. group' = [group EXCEPT ![o] = g]
    BY <1>2 DEF Begin, g
  <2>5. TypeOK'
    <3>1. group' \in [Operators -> Groups \cup {None}]
      BY <2>2, <2>4 DEF IInv, TypeOK
    <3> QED BY <1>1, <3>1 DEF IInv, TypeOK, Begin, Goto, PCs, server, Sound
  <2>6. \A x \in Operators \ {o} : Same(x)
    BY <2>4 DEF Begin, Goto, Same, IInv, TypeOK
  <2>7. /\ cmd'[o] = "end" /\ info'[o] = mapping /\ seen'[o] = mapping /\ pc'[o] = "view"
        /\ group'[o] = g /\ next'[o] = next[o]
    BY <1>2, <2>4 DEF Begin, Goto, IInv, TypeOK
  <2>8. OpInv(o)'
    BY <1>1, <1>2, <2>3, <2>7 DEF IInv, OpInv, Made, HasRead, Chosen, IsRollout
  <2> QED BY <2>5, <2>6, <2>8, OthersKeep DEF Begin, server, IInv
<1>3. CASE ~(c = "end" /\ IsLegacy(mapping))
  <2>1. group' = group
    BY <1>3 DEF Begin
  <2>2. TypeOK'
    BY <1>1, <2>1 DEF IInv, TypeOK, Begin, Goto, PCs, server, Sound
  <2>3. \A x \in Operators \ {o} : Same(x)
    BY <2>1 DEF Begin, Goto, Same, IInv, TypeOK
  <2>4. /\ cmd'[o] = c /\ info'[o] = mapping /\ seen'[o] = mapping
        /\ pc'[o] = IF c \in {"edit", "end"} THEN "view" ELSE "ask"
        /\ group'[o] = group[o] /\ next'[o] = next[o]
    BY <2>1 DEF Begin, Goto, IInv, TypeOK
  <2>5. IsStandard(mapping) \/ IsEmpty(mapping) => ~IsRollout(mapping)
    BY DEF IsStandard, IsEmpty, IsRollout, IsLegacy, IsConstrained
  <2>6. OpInv(o)'
    BY <1>1, <2>4, <2>5, ZenonT(40) DEF IInv, OpInv, Made, HasRead, Chosen, Admits, Commands
  <2> QED BY <2>2, <2>3, <2>6, OthersKeep DEF Begin, server, IInv
<1> QED BY <1>2, <1>3

\* The end of a command, with or without its write.
LEMMA OverKeeps ==
  ASSUME IInv, NEW o \in Operators, Over(o), UNCHANGED <<newest, top, updates>>,
         Sound(mapping')
  PROVE  IInv'
<1> USE RolloutAssumption
<1>0. <<>> \in Mappings /\ Sound(<<>>)
  BY DEF Mappings, Sound, IsConstrained
<1>1. TypeOK'
  BY <1>0 DEF IInv, TypeOK, Over, Goto, PCs, Sound
<1>2. \A x \in Operators \ {o} : Same(x)
  BY DEF Over, Goto, Same, IInv, TypeOK
<1>3. OpInv(o)'
  <2>1. /\ pc'[o] = "idle" /\ cmd'[o] = None /\ info'[o] = <<>> /\ seen'[o] = <<>>
        /\ group'[o] = None /\ next'[o] = <<>>
    BY DEF Over, Goto, IInv, TypeOK
  <2> QED BY <1>0, <2>1 DEF OpInv, Made, HasRead, Chosen
<1> QED BY <1>1, <1>2, <1>3, OthersKeep DEF Sound

LEMMA WriteKeeps ==
  ASSUME IInv, NEW o \in Operators, Write(o)
  PROVE  IInv'
BY OverKeeps DEF Write, IInv, OpInv

LEMMA GiveUpKeeps ==
  ASSUME IInv, NEW o \in Operators, GiveUp(o)
  PROVE  IInv'
BY OverKeeps DEF GiveUp, server, IInv

\* The answers make a rollout that falls back to the branch read.
LEMMA AskCreateKeeps ==
  ASSUME IInv, NEW o \in Operators, AskCreate(o)
  PROVE  IInv'
<1> USE RolloutAssumption
<1>1. PICK b \in Branches, r \in Runtimes, p \in 0..100 :
        next' = [next EXCEPT ![o] = CreateMapping(Default(info[o]), b, r, p)]
  BY DEF AskCreate, IsPercent
<1>2. seen[o] = info[o] /\ info[o] \in Mappings /\ Len(info[o]) > 0
  BY RolloutIs DEF AskCreate, At, IInv, OpInv, HasRead, Sound
<1>3. Default(info[o]) \in Branches
  BY <1>2, DefaultIs
<1>4. Sound(CreateMapping(Default(info[o]), b, r, p))
  BY <1>3, CreateIs
<1>5. TypeOK'
  BY <1>1, <1>4 DEF IInv, TypeOK, AskCreate, Goto, PCs, server, Sound
<1>6. \A x \in Operators \ {o} : Same(x)
  BY <1>1 DEF AskCreate, Goto, Same, IInv, TypeOK
<1>7. OpInv(o)'
  <2>1. /\ pc'[o] = "view" /\ cmd'[o] = "create" /\ cmd[o] = "create" /\ pc[o] = "ask"
        /\ next'[o] = CreateMapping(Default(seen[o]), b, r, p)
        /\ UNCHANGED <<info, seen, group, newest, overtaken>>
    BY <1>1, <1>2 DEF AskCreate, At, Goto, IInv, TypeOK, server
  <2> QED BY <1>2, <1>4, <2>1 DEF IInv, OpInv, Made, HasRead, Chosen
<1> QED BY <1>5, <1>6, <1>7, OthersKeep DEF AskCreate, server, IInv

LEMMA ViewCreateKeeps ==
  ASSUME IInv, NEW o \in Operators, ViewCreate(o)
  PROVE  IInv'
<1> USE RolloutAssumption
<1>1. TypeOK'
  BY DEF IInv, TypeOK, ViewCreate, Goto, PCs, server
<1>2. \A x \in Operators \ {o} : Same(x)
  BY DEF ViewCreate, Goto, Same, IInv, TypeOK
<1>3. OpInv(o)'
  BY SMTT(30) DEF ViewCreate, At, Goto, server, IInv, TypeOK, OpInv, Made, HasRead, Chosen
<1> QED BY <1>1, <1>2, <1>3, OthersKeep DEF ViewCreate, server, IInv

\* The mapping to edit is a rollout when it is read again, or was when it was read.
LEMMA ViewEditKeeps ==
  ASSUME IInv, NEW o \in Operators, ViewEdit(o)
  PROVE  IInv'
<1> USE RolloutAssumption
<1>0. group' = group /\ (seen' = [seen EXCEPT ![o] = mapping] \/ seen' = seen)
  BY DEF ViewEdit, FromCache
<1>1. TypeOK'
  BY <1>0, EmptyIs DEF IInv, TypeOK, ViewEdit, Goto, PCs, server, Sound
<1>2. \A x \in Operators \ {o} : Same(x)
  BY <1>0 DEF ViewEdit, Goto, Same, IInv, TypeOK
<1>3. OpInv(o)'
  <2>1. /\ pc'[o] = "ask" /\ cmd'[o] = "edit" /\ info'[o] = <<>>
        /\ group'[o] = group[o] /\ next'[o] = next[o]
    BY <1>0 DEF ViewEdit, At, Goto, IInv, TypeOK
  <2>2. group[o] = None
    BY DEF ViewEdit, At, IInv, OpInv, Chosen
  <2>3. IsRollout(seen'[o]) /\ Sound(seen'[o])
    <3>1. CASE IsRollout(mapping) /\ seen' = [seen EXCEPT ![o] = mapping]
      BY <3>1 DEF IInv, TypeOK
    <3>2. CASE seen' = seen
      BY <3>2 DEF ViewEdit, At, IInv, OpInv, HasRead
    <3> QED BY <3>1, <3>2 DEF ViewEdit, FromCache
  <2> QED BY EmptyIs, <2>1, <2>2, <2>3 DEF IInv, OpInv, Made, HasRead, Chosen
<1> QED BY <1>0, <1>1, <1>2, <1>3, OthersKeep DEF ViewEdit, server, IInv

LEMMA AskEditKeeps ==
  ASSUME IInv, NEW o \in Operators, AskEdit(o)
  PROVE  IInv'
<1> USE RolloutAssumption
<1>1. PICK p \in 0..100 : next' = [next EXCEPT ![o] = EditMapping(seen[o], p)]
  BY DEF AskEdit, IsPercent
<1>2. Sound(EditMapping(seen[o], p))
  BY EditIs DEF AskEdit, At, IInv, OpInv, HasRead
<1>3. TypeOK'
  BY <1>1, <1>2 DEF IInv, TypeOK, AskEdit, Goto, PCs, server, Sound
<1>4. \A x \in Operators \ {o} : Same(x)
  BY <1>1 DEF AskEdit, Goto, Same, IInv, TypeOK
<1>5. OpInv(o)'
  <2>1. /\ pc'[o] = "confirm" /\ cmd'[o] = "edit" /\ cmd[o] = "edit" /\ pc[o] = "ask"
        /\ next'[o] = EditMapping(seen[o], p)
        /\ UNCHANGED <<info, seen, group, newest, overtaken>>
    BY <1>1 DEF AskEdit, At, Goto, IInv, TypeOK, server
  <2> QED BY <1>2, <2>1 DEF IInv, OpInv, Made, HasRead, Chosen
<1> QED BY <1>3, <1>4, <1>5, OthersKeep DEF AskEdit, server, IInv

\* The group read has the runtime of the rollout in info, if it names one.
LEMMA ViewEndKeeps ==
  ASSUME IInv, NEW o \in Operators, ViewEnd(o)
  PROVE  IInv'
<1> USE RolloutAssumption
<1>0. CASE FromCache(o)
  <2>1. /\ pc' = [pc EXCEPT ![o] = "ask"] /\ cmd[o] = "end"
        /\ UNCHANGED <<mapping, newest, top, updates, cmd, info, seen, group, next, overtaken>>
    BY <1>0 DEF ViewEnd, FromCache, At, Goto, server
  <2>2. TypeOK'  BY <2>1 DEF IInv, TypeOK, PCs
  <2>3. \A x \in Operators \ {o} : Same(x)  BY <2>1 DEF Same, IInv, TypeOK
  <2>4. pc'[o] = "ask"  BY <2>1 DEF IInv, TypeOK
  <2>5. OpInv(o)'
    BY <2>1, <2>4 DEF IInv, OpInv, Made, HasRead, Chosen
  <2> QED BY <2>1, <2>2, <2>3, <2>5, OthersKeep DEF IInv
<1>1. CASE ~FromCache(o)
  <2> DEFINE r == info[o][1].logic.runtime
             g == LatestGroup(RolledOut(mapping), r)
  <2>1. /\ cmd[o] = "end" /\ pc' = [pc EXCEPT ![o] = "ask"] /\ IsRollout(mapping)
        /\ seen' = [seen EXCEPT ![o] = mapping] /\ group' = [group EXCEPT ![o] = g]
        /\ UNCHANGED <<mapping, newest, top, updates, cmd, info, next, overtaken>>
    BY <1>1 DEF ViewEnd, At, Goto, server
  <2>2. IsRollout(info[o]) /\ Sound(mapping) /\ Sound(info[o])
    BY <2>1 DEF IInv, OpInv, HasRead
  <2>3. RolledOut(mapping) \in Branches /\ r \in Runtimes \cup {None}
    BY <2>1, <2>2, RolloutIs, DefaultIs DEF Sound, RolledOut, Logics
  <2>4. g # None => g \in Groups /\ (r # None => g.runtime = r)
    BY <2>3, LatestIs DEF IInv
  <2>5. g # None /\ info[o] = mapping => Targets(mapping, g.runtime)
    BY <2>2, <2>4 DEF Targets, Sound, IsRollout
  <2> HIDE DEF g
  <2>6. /\ pc'[o] = "ask" /\ cmd'[o] = "end" /\ seen'[o] = mapping /\ group'[o] = g
        /\ UNCHANGED <<info, next, newest, overtaken, cmd>>
    BY <2>1 DEF IInv, TypeOK
  <2>7. TypeOK'
    <3>1. group' \in [Operators -> Groups \cup {None}]
      BY <2>1, <2>4 DEF IInv, TypeOK
    <3> QED BY <2>1, <3>1 DEF IInv, TypeOK, PCs, Sound
  <2>8. \A x \in Operators \ {o} : Same(x)
    BY <2>1 DEF Same, IInv, TypeOK
  <2>9. OpInv(o)'
    BY <2>1, <2>2, <2>5, <2>6 DEF IInv, OpInv, Made, HasRead, Chosen
  <2> QED BY <2>1, <2>7, <2>8, <2>9, OthersKeep DEF IInv
<1> QED BY <1>0, <1>1

LEMMA AskEndKeeps ==
  ASSUME IInv, NEW o \in Operators, AskEnd(o)
  PROVE  IInv'
<1> USE RolloutAssumption
<1>1. IsRollout(seen[o]) /\ Sound(seen[o])
  BY DEF AskEnd, At, IInv, OpInv, HasRead
<1>2. Sound(Standard(Default(seen[o])))
  BY <1>1, RolloutIs, DefaultIs, StandardIs DEF Sound
<1>3. TypeOK'
  BY <1>2 DEF IInv, TypeOK, AskEnd, Goto, PCs, server, Sound
<1>4. \A x \in Operators \ {o} : Same(x)
  BY DEF AskEnd, Goto, Same, IInv, TypeOK
<1>5. OpInv(o)'
  <2>1. /\ pc'[o] \in {"confirm", "republish"} /\ cmd[o] = "end" /\ pc[o] = "ask"
        /\ pc'[o] = "republish" => group[o] # None
        /\ next'[o] = Standard(Default(seen[o]))
        /\ UNCHANGED <<cmd, info, seen, group, newest, overtaken>>
    BY DEF AskEnd, At, Goto, IInv, TypeOK, server
  <2> QED BY <1>2, <2>1 DEF IInv, OpInv, Made, HasRead, Chosen
<1> QED BY <1>3, <1>4, <1>5, OthersKeep DEF AskEnd, server, IInv

LEMMA AskPointKeeps ==
  ASSUME IInv, NEW o \in Operators, AskPoint(o)
  PROVE  IInv'
<1> USE RolloutAssumption
<1>1. PICK b \in Branches : next' = [next EXCEPT ![o] = Standard(b)]
  BY DEF AskPoint
<1>2. TypeOK'
  BY <1>1, StandardIs DEF IInv, TypeOK, AskPoint, Goto, PCs, server, Sound
<1>3. \A x \in Operators \ {o} : Same(x)
  BY <1>1 DEF AskPoint, Goto, Same, IInv, TypeOK
<1>4. OpInv(o)'
  BY <1>1, StandardIs DEF AskPoint, At, Goto, server, IInv, TypeOK, OpInv, Made,
       HasRead, Chosen
<1> QED BY <1>2, <1>3, <1>4, OthersKeep DEF AskPoint, server, IInv

\* Whoever publishes: an operator whose group was republished either still
\* has it served, or is marked as overtaken.
LEMMA PutKeeps ==
  ASSUME IInv, NEW b \in Branches, NEW r \in Runtimes, NEW content, Put(b, r, content),
         NEW x \in Operators,
         UNCHANGED <<cmd, info, seen, group, next>>, pc'[x] = pc[x],
         overtaken'[x] = \/ overtaken[x]
                         \/ /\ pc[x] = "revert" /\ Default(seen[x]) = b
                            /\ group[x].runtime = r
  PROVE  OpInv(x)'
<1>1. OpInv(x) /\ newest \in [Branches -> [Runtimes -> 0..MaxUpdates]]
  BY DEF IInv, TypeOK
<1>2. ASSUME pc[x] = "revert", ~overtaken'[x]
      PROVE  newest'[Default(seen[x])][group[x].runtime] = group[x].content
  <2>1. /\ newest[Default(seen[x])][group[x].runtime] = group[x].content
        /\ Default(seen[x]) # b \/ group[x].runtime # r
    BY <1>1, <1>2 DEF OpInv, Chosen
  <2>2. Default(seen[x]) \in Branches /\ group[x].runtime \in Runtimes
    <3>1. cmd[x] = "end" /\ group[x] # None
      BY <1>1, <1>2 DEF OpInv, Chosen
    <3>2. IsRollout(seen[x]) /\ seen[x] \in Mappings
      BY <1>1, <3>1 DEF OpInv, HasRead, Sound
    <3>3. group[x].runtime \in Runtimes
      BY <3>1 DEF IInv, TypeOK, Groups
    <3> QED BY <3>2, <3>3, RolloutIs, DefaultIs
  <2> QED BY <1>1, <2>1, <2>2 DEF Put
<1> QED BY <1>1, <1>2 DEF OpInv, Made, HasRead, Chosen

LEMMA PublishKeeps ==
  ASSUME IInv, NEW b \in Branches, NEW r \in Runtimes, Publish(b, r)
  PROVE  IInv'
<1> USE RolloutAssumption
<1>1. TypeOK'
  <2>1. updates + 1 \in 0..MaxUpdates
    BY DEF IInv, TypeOK, Publish
  <2>2. newest' \in [Branches -> [Runtimes -> 0..MaxUpdates]]
    BY <2>1 DEF IInv, TypeOK, Publish, Put
  <2>3. overtaken' \in [Operators -> BOOLEAN]
    BY DEF IInv, TypeOK, Publish, Overtaken
  <2> QED BY <2>1, <2>2, <2>3 DEF IInv, TypeOK, Publish, Put
<1>2. ASSUME NEW x \in Operators PROVE OpInv(x)'
  BY PutKeeps DEF Publish, Overtaken
<1> QED BY <1>1, <1>2 DEF IInv, Publish

LEMMA RepublishKeeps ==
  ASSUME IInv, NEW o \in Operators, Republish(o)
  PROVE  IInv'
<1> USE RolloutAssumption
<1> DEFINE b == Default(seen[o])
           r == group[o].runtime
<1>1. cmd[o] = "end" /\ group[o] \in Groups /\ pc[o] = "republish"
  BY DEF Republish, IInv, OpInv, Chosen, TypeOK
<1>2. b \in Branches /\ r \in Runtimes /\ group[o].content \in 1..MaxUpdates
  <2>1. IsRollout(seen[o]) /\ seen[o] \in Mappings
    BY <1>1 DEF IInv, OpInv, HasRead, Sound
  <2> QED BY <1>1, <2>1, RolloutIs, DefaultIs DEF Groups
<1>3. Put(b, r, group[o].content) /\ UNCHANGED <<cmd, info, seen, group, next>>
      /\ overtaken' = Overtaken(b, r, {o}) /\ pc' = [pc EXCEPT ![o] = "revert"]
  BY DEF Republish, Goto
<1>4. TypeOK'
  <2>1. newest' \in [Branches -> [Runtimes -> 0..MaxUpdates]]
    <3> HIDE DEF b, r
    <3> QED BY <1>2, <1>3 DEF IInv, TypeOK, Put
  <2>2. top' \in [Branches -> Runtimes \cup {None}]
    <3> HIDE DEF b, r
    <3> QED BY <1>2, <1>3 DEF IInv, TypeOK, Put
  <2>3. overtaken' \in [Operators -> BOOLEAN]
    <3> HIDE DEF b, r
    <3> QED BY <1>3 DEF IInv, TypeOK, Overtaken
  <2> QED BY <2>1, <2>2, <2>3 DEF IInv, TypeOK, Republish, Goto, PCs
<1>5. ASSUME NEW x \in Operators, x # o PROVE OpInv(x)'
  <2>1. pc'[x] = pc[x]
    BY <1>3, <1>5 DEF IInv, TypeOK
  <2>2. overtaken'[x] = \/ overtaken[x]
                        \/ pc[x] = "revert" /\ Default(seen[x]) = b /\ group[x].runtime = r
    <3> HIDE DEF b, r
    <3> QED BY <1>3, <1>5 DEF Overtaken
  <2> HIDE DEF b, r
  <2> QED BY <1>2, <1>3, <2>1, <2>2, PutKeeps
<1>6. OpInv(o)'
  <2>1. pc'[o] = "revert"
    BY <1>3 DEF IInv, TypeOK
  <2>2. newest'[b][r] = group[o].content
    <3> HIDE DEF b, r
    <3> QED BY <1>2, <1>3 DEF IInv, TypeOK, Put
  <2> QED BY <1>1, <1>3, <2>1, <2>2 DEF IInv, OpInv, Made, HasRead, Chosen
<1> QED BY <1>4, <1>5, <1>6 DEF IInv, Republish

LEMMA NextKeeps == IInv /\ [Next]_vars => IInv'
<1> SUFFICES ASSUME IInv, [Next]_vars PROVE IInv'
  OBVIOUS
<1>1. ASSUME NEW o \in Operators, Step(o) PROVE IInv'
  BY <1>1, BeginKeeps, AskCreateKeeps, ViewCreateKeeps, ViewEditKeeps, AskEditKeeps,
     ViewEndKeeps, AskEndKeeps, RepublishKeeps, AskPointKeeps, WriteKeeps, GiveUpKeeps
     DEF Step
<1>2. CASE UNCHANGED vars
  BY <1>2 DEF vars, server, IInv, TypeOK, OpInv, Made, HasRead, Chosen
<1> QED BY <1>1, <1>2, PublishKeeps DEF Next

\* What a command has read and made fits what it does next, in every behaviour.
THEOREM Invariant == Spec => []IInv
<1>1. Init => IInv
  BY InitIInv
<1>2. IInv /\ [Next]_vars => IInv'
  BY NextKeeps
<1> QED BY <1>1, <1>2, PTL DEF Spec

\* The channel and the locals of the commands keep their types: in particular
\* no percentage outside 0..100 and no rollout without its runtime is written.
THEOREM TypeCorrect == Spec => []TypeOK
<1>1. IInv => TypeOK
  BY DEF IInv
<1> QED BY <1>1, Invariant, PTL

-----------------------------------------------------------------------------
(* The action properties.                                                  *)

\* A rollout is only replaced, by a command that has seen it, by its end or by
\* itself with another percentage.
LEMMA WriteContinues ==
  ASSUME IInv, NEW o \in Operators, Write(o), seen[o] = mapping
  PROVE  RolloutContinues
<1> SUFFICES ASSUME IsRollout(mapping) PROVE Continues(mapping, mapping')
  BY DEF RolloutContinues
<1>1. Sound(mapping) /\ OpInv(o) /\ mapping' = next[o] /\ pc[o] \in {"confirm", "revert"}
  BY DEF IInv, Write
<1>2. cmd[o] \in {"create", "edit", "end", "point"}
  BY <1>1, RolloutAssumption DEF OpInv, IInv, TypeOK, Commands
<1>3. CASE cmd[o] \in {"create", "point"}
  BY <1>1, <1>3 DEF OpInv, HasRead, IsStandard, IsRollout, IsLegacy, IsConstrained
<1>4. CASE cmd[o] = "edit"
  <2>1. pc[o] = "confirm"
    BY <1>1, <1>4 DEF OpInv, Chosen
  <2>2. PICK p \in 0..100 : next[o] = EditMapping(mapping, p)
    BY <1>1, <1>4, <2>1 DEF OpInv, Made
  <2> DEFINE n == EditMapping(mapping, p)
  <2>3. /\ IsRollout(n) /\ Default(n) = Default(mapping)
        /\ RolledOut(n) = RolledOut(mapping)
        /\ \A r \in Runtimes : Targets(n, r) <=> Targets(mapping, r)
    BY <1>1, EditIs
  <2> HIDE DEF n
  <2> QED BY <1>1, <2>2, <2>3 DEF Continues, n
<1>5. CASE cmd[o] = "end"
  BY <1>1, <1>5 DEF OpInv, Made, Continues
<1> QED BY <1>2, <1>3, <1>4, <1>5

\* Creating a rollout or changing its percentage leaves every device outside
\* of it with what it got.
LEMMA WriteLeavesOutside ==
  ASSUME IInv, NEW o \in Operators, Write(o), seen[o] = mapping
  PROVE  OutsideUntouched(o)
<1> DEFINE B ==
      \A r \in Runtimes, t \in 0..99 :
        \/ /\ Targets(mapping', r)
           /\ t < mapping'[1].logic.percent \/ t < mapping[1].logic.percent
        \/ newest'[Gets(mapping', r, t)][r] = newest[Gets(mapping, r, t)][r]
<1> SUFFICES ASSUME cmd[o] \in {"create", "edit"} PROVE B
  BY DEF OutsideUntouched
<1>1. /\ Sound(mapping) /\ OpInv(o) /\ mapping' = next[o] /\ newest' = newest
      /\ pc[o] = "confirm"
  BY DEF IInv, Write, OpInv, Chosen
<1>2. CASE cmd[o] = "create"
  <2>1. IsStandard(mapping) /\ ~IsRollout(mapping)
    BY <1>1, <1>2 DEF OpInv, HasRead, IsStandard, IsRollout, IsLegacy, IsConstrained
  <2>2. PICK b \in Branches, q \in Runtimes, p \in 0..100 :
          mapping' = CreateMapping(Default(mapping), b, q, p)
    BY <1>1, <1>2 DEF OpInv, Made
  <2>3. Default(mapping) \in Branches
    BY <1>1, <2>1, RolloutIs, DefaultIs DEF Sound
  <2> DEFINE n == CreateMapping(Default(mapping), b, q, p)
  <2>4. Default(n) = Default(mapping)
    BY <2>3, CreateFallsBack
  <2>5. mapping' = n
    BY <2>2
  <2> HIDE DEF n
  <2>6. Default(mapping') = Default(mapping)
    BY <2>4, <2>5
  <2> QED BY <1>1, <2>1, <2>6 DEF Gets
<1>3. CASE cmd[o] = "edit"
  <2>1. IsRollout(mapping)
    BY <1>1, <1>3 DEF OpInv, HasRead
  <2>2. PICK p \in 0..100 : mapping' = EditMapping(mapping, p)
    BY <1>1, <1>3 DEF OpInv, Made
  <2> DEFINE n == EditMapping(mapping, p)
  <2>3. Default(n) = Default(mapping)
        /\ \A r \in Runtimes : Targets(n, r) <=> Targets(mapping, r)
    BY <1>1, <2>1, EditIs
  <2>4. mapping' = n
    BY <2>2
  <2> HIDE DEF n
  <2> QED BY <1>1, <2>3, <2>4 DEF Gets
<1> QED BY <1>2, <1>3

\* A command with a true reading does to the rollout, and to the devices
\* outside it, what its operator saw and nothing else.
THEOREM ReadingsKept == Spec => TrueReadingsKept
<1> DEFINE A == \A o \in Operators : Write(o) /\ seen[o] = mapping
                  => RolloutContinues /\ OutsideUntouched(o)
<1>1. IInv => [A]_vars
  BY WriteContinues, WriteLeavesOutside
<1> QED BY <1>1, Invariant, PTL DEF TrueReadingsKept

\* Ending by republishing serves what was chosen, and chooses what was served.
THEOREM EndsServeChosen == Spec => EndServesChosen
<1> DEFINE B(o) == /\ overtaken[o] \/ \A t \in 0..99 :
                        newest'[Gets(mapping', group[o].runtime, t)][group[o].runtime]
                          = group[o].content
                   /\ info[o] = seen[o] => Targets(seen[o], group[o].runtime)
<1>1. ASSUME IInv, NEW o \in Operators, Write(o), pc[o] = "revert"
      PROVE  B(o)
  <2>1. /\ OpInv(o) /\ mapping' = next[o] /\ newest' = newest
        /\ cmd[o] = "end" /\ group[o] # None
    BY <1>1 DEF IInv, Write, OpInv, Chosen
  <2>2. Default(seen[o]) \in Branches
    BY <2>1, RolloutIs, DefaultIs DEF OpInv, HasRead, Sound
  <2>3. mapping' = Standard(Default(seen[o]))
    BY <1>1, <2>1 DEF OpInv, Made
  <2>4. ASSUME NEW t \in 0..99
        PROVE  Gets(mapping', group[o].runtime, t) = Default(seen[o])
    BY <2>2, <2>3, StandardIs DEF Gets
  <2>5. ~overtaken[o] =>
          newest[Default(seen[o])][group[o].runtime] = group[o].content
    BY <1>1, <2>1 DEF OpInv, Chosen
  <2>6. info[o] = seen[o] => Targets(seen[o], group[o].runtime)
    BY <2>1 DEF OpInv, Chosen
  <2> QED BY <2>1, <2>4, <2>5, <2>6
<1> DEFINE A == \A o \in Operators : Write(o) /\ pc[o] = "revert" => B(o)
<1>2. IInv => [A]_vars
  BY <1>1
<1> QED BY <1>2, Invariant, PTL DEF EndServesChosen

-----------------------------------------------------------------------------
(* BuildCommand.                                                            *)

\* The shape of the variables, and where they came from.
Typed ==
  /\ BuildTypeOK /\ Limited(latest["android"])
  /\ \E q \in Projects : local = q.local
  /\ \A c \in Invocations \ DOMAIN flags : place[c] = "over" /\ \A p \in Platforms : requests[<<c, p>>] = 0

\* The platforms of a command whose build is requested, or submission started, already.
Before(c) == {Order(c)[i] : i \in 1..index[c] - 1}

Requesting == {"read", "write", "send"}

\* A command has at most one build of each platform it has come to.
RequestedOnce(c) ==
  \A p \in Platforms :
    /\ requests[<<c, p>>] <= 1 /\ (requests[<<c, p>>] = 0 <=> build[<<c, p>>] = "none")
    /\ requests[<<c, p>>] = 1 => p \in Of(c)
    /\ place[c] \in Requesting /\ p \notin Before(c) => requests[<<c, p>>] = 0

\* c has written, and may have built, its version of p.
Owns(c, p) ==
  \/ requests[<<c, p>>] > 0
  \/ p = P(c) /\ (place[c] = "send" \/ (place[c] = "write" /\ known[c] = version[<<c, p>>]))

\* A version to be written is newer than the one known, or has been written.
Newer(c) ==
  place[c] = "write" =>
    /\ version[<<c, P(c)>>] # Unset
    /\ known[c] <= version[<<c, P(c)>>]

Increments(c, p) == c \in DOMAIN flags /\ flags[c].autoIncrement /\ Owns(c, p)

OwnersDiffer ==
  \A p \in Platforms \ raced : \A c \in Invocations : Increments(c, p) =>
    /\ version[<<c, p>>] \in 1..latest[p]
    /\ \A d \in Invocations \ {c} : Increments(d, p) => version[<<c, p>>] # version[<<d, p>>]

VersionInv ==
  /\ \A c \in DOMAIN flags : RequestedOnce(c) /\ Newer(c)
  /\ OwnersDiffer

\* All builds, and submissions, of a command that waits or has not failed are started.
AllStarted(c) ==
  /\ place[c] \in Requesting => \A p \in Before(c) : build[<<c, p>>] # "none"
  /\ place[c] \notin Requesting /\ outcome[c] = "none" =>
       /\ \A p \in Of(c) : build[<<c, p>>] # "none"
       /\ place[c] = "submit" => flags[c].autoSubmit
       /\ flags[c].autoSubmit => \A p \in Of(c) :
            place[c] # "submit" \/ p \in Before(c) => submission[<<c, p>>] # "none"

\* What a query told of an end is true ever after.
SeenTrue(c) ==
  \A p \in Of(c) : told[<<c, p>>] \in Ended =>
    /\ place[c] = "builds" => build[<<c, p>>] = told[<<c, p>>]
    /\ place[c] = "submissions" => submission[<<c, p>>] = told[<<c, p>>]

SubmitsFinished(c) ==
  \A p \in Platforms :
    /\ submission[<<c, p>>] = "finished" => build[<<c, p>>] = "finished"
    /\ submission[<<c, p>>] # "none" => requests[<<c, p>>] = 1

\* What ExitTellsOutcome says of one command.
Exits(c) ==
  /\ outcome[c] = "ok" =>
       /\ \A p \in Of(c) : build[<<c, p>>] # "none"
       /\ flags[c].autoSubmit => \A p \in Of(c) : submission[<<c, p>>] # "none"
       /\ flags[c].wait =>
            /\ \A p \in Of(c) : build[<<c, p>>] \notin {"active", "errored"}
            /\ flags[c].autoSubmit => \/ \A p \in Of(c) : submission[<<c, p>>] = "finished"
                                     \/ \A p \in Of(c) : build[<<c, p>>] = "canceled"
  /\ outcome[c] = "exit1" =>
       \E p \in Of(c) : build[<<c, p>>] = "errored" \/ submission[<<c, p>>] \in {"errored", "canceled"}

\* How far a command has come.
Truthful(c) ==
  /\ place[c] = "over" <=> outcome[c] # "none"
  /\ Waiting(c) => flags[c].wait
  /\ place[c] \in Requesting \cup {"submit"} => \A p \in Platforms : told[<<c, p>>] = "asked"
  /\ place[c] = "submissions" => flags[c].autoSubmit
  /\ AllStarted(c) /\ SeenTrue(c) /\ SubmitsFinished(c) /\ Exits(c)

OutcomeInv == \A c \in DOMAIN flags : Truthful(c)

CommandInv == Typed /\ VersionInv /\ OutcomeInv


-----------------------------------------------------------------------------
(* The command's platforms, and what a step of it leaves alone.             *)

LEMMA OrderIs ==
  ASSUME flags \in Options, NEW c \in DOMAIN flags
  PROVE  /\ c \in Invocations /\ flags[c] \in OptionRecords
         /\ Len(Order(c)) \in 1..2 /\ DOMAIN Order(c) = 1..Len(Order(c))
         /\ \A i \in DOMAIN Order(c) : Order(c)[i] \in Platforms
         /\ \A i, j \in DOMAIN Order(c) : Order(c)[i] = Order(c)[j] => i = j
         /\ Of(c) \subseteq Platforms /\ Of(c) # {}
<1>1. PICK C \in SUBSET Invocations : flags \in [C -> OptionRecords]
  BY CommandAssumption
<1>2. c \in Invocations /\ flags[c] \in OptionRecords
  BY <1>1
<1>3. Order(c) \in {<<"android">>, <<"ios">>, <<"android", "ios">>}
  BY <1>2 DEF Order, OptionRecords
<1>4. /\ Len(Order(c)) \in 1..2 /\ DOMAIN Order(c) = 1..Len(Order(c))
      /\ \A i \in DOMAIN Order(c) : Order(c)[i] \in Platforms
      /\ \A i, j \in DOMAIN Order(c) : Order(c)[i] = Order(c)[j] => i = j
  <2>1. CASE Order(c) = <<"android">> BY <2>1 DEF Platforms
  <2>2. CASE Order(c) = <<"ios">> BY <2>2 DEF Platforms
  <2>3. CASE Order(c) = <<"android", "ios">> BY <2>3 DEF Platforms
  <2> QED BY <1>3, <2>1, <2>2, <2>3
<1>5. Of(c) \subseteq Platforms /\ Order(c)[1] \in Of(c)
  BY <1>4 DEF Of
<1> QED BY <1>2, <1>4, <1>5

\* The platform a command is at, and those before it.
LEMMA PlatformIs ==
  ASSUME Typed, NEW c \in DOMAIN flags
  PROVE  /\ c \in Invocations /\ P(c) \in Platforms /\ P(c) \in Of(c) /\ Job(c) = <<c, P(c)>>
         /\ Job(c) \in Jobs /\ P(c) \notin Before(c) /\ Before(c) \subseteq Of(c)
         /\ ~(index[c] < Len(Order(c))) => Of(c) = Before(c) \cup {P(c)}
<1>1. /\ index[c] \in DOMAIN Order(c) /\ DOMAIN Order(c) = 1..Len(Order(c))
      /\ Len(Order(c)) \in 1..2 /\ c \in Invocations
      /\ \A i \in DOMAIN Order(c) : Order(c)[i] \in Platforms
      /\ \A i, j \in DOMAIN Order(c) : Order(c)[i] = Order(c)[j] => i = j
  BY OrderIs DEF Typed, BuildTypeOK
<1>2. P(c) \in Platforms /\ P(c) \in Of(c) /\ Job(c) = <<c, P(c)>> /\ Job(c) \in Jobs
  BY <1>1 DEF P, Of, Job, Jobs
<1>3. \A i \in 1..index[c] - 1 : i \in DOMAIN Order(c) /\ i # index[c]
  BY <1>1
<1>4. P(c) \notin Before(c)
  BY <1>1, <1>3 DEF P, Before
<1>5. Before(c) \subseteq Of(c)
  BY <1>3 DEF Before, Of
<1>6. ASSUME ~(index[c] < Len(Order(c))) PROVE Of(c) \subseteq Before(c) \cup {P(c)}
  <2>1. index[c] = Len(Order(c)) BY <1>1, <1>6
  <2>2. \A i \in DOMAIN Order(c) : i = index[c] \/ i \in 1..index[c] - 1 BY <1>1, <2>1
  <2> QED BY <2>2 DEF Of, Before, P
<1> QED BY <1>1, <1>2, <1>4, <1>5, <1>6

\* At the next platform one more is behind.
LEMMA NextPlatform ==
  ASSUME Typed, NEW c \in DOMAIN flags, index[c] < Len(Order(c)), flags' = flags,
         index' = [index EXCEPT ![c] = @ + 1]
  PROVE  /\ index'[c] \in DOMAIN Order(c) /\ index'[c] = index[c] + 1
         /\ Before(c)' = Before(c) \cup {P(c)}
<1>1. /\ index[c] \in DOMAIN Order(c) /\ DOMAIN Order(c) = 1..Len(Order(c))
      /\ Len(Order(c)) \in 1..2 /\ c \in Invocations /\ index \in [Invocations -> 1..2]
  BY OrderIs DEF Typed, BuildTypeOK
<1>2. index'[c] = index[c] + 1 /\ index'[c] \in DOMAIN Order(c) /\ Order(c)' = Order(c)
  BY <1>1 DEF Order
<1>3. 1..index'[c] - 1 = (1..index[c] - 1) \cup {index[c]}
  BY <1>1, <1>2
<1> QED BY <1>2, <1>3 DEF Before, P

\* What a step of c leaves alone.
Untouched(d) ==
  /\ place'[d] = place[d] /\ index'[d] = index[d] /\ outcome'[d] = outcome[d]
  /\ known'[d] = known[d] /\ tries'[d] = tries[d]
  /\ \A p \in Platforms :
       /\ version'[<<d, p>>] = version[<<d, p>>] /\ told'[<<d, p>>] = told[<<d, p>>]
       /\ requests'[<<d, p>>] = requests[<<d, p>>] /\ build'[<<d, p>>] = build[<<d, p>>]
       /\ submission'[<<d, p>>] = submission[<<d, p>>]

Moves(c) == Command(c) \/ Throw(c) \/ Interrupt(c)

LEMMA MovesOne ==
  ASSUME Typed, NEW c \in Invocations, Moves(c)
  PROVE  /\ c \in DOMAIN flags /\ UNCHANGED inputs
         /\ \A d \in Invocations \ {c} : Untouched(d)
<1>1. c \in DOMAIN flags
  BY DEF Typed, Moves, Command, Throw, Interrupt, ReadVersion, WriteVersion, WriteLost,
         SendBuild, SendLost, Submit, SubmitLost, JudgeBuilds, JudgeSubmissions, Answer,
         QueryFails, Waiting
<1>2. UNCHANGED inputs
  BY DEF Moves, Command, Throw, Interrupt, ReadVersion, WriteVersion, WriteLost,
         SendBuild, SendLost, Submit, SubmitLost, JudgeBuilds, JudgeSubmissions, Answer,
         QueryFails
<1>3. ASSUME NEW d \in Invocations \ {c} PROVE Untouched(d)
  <2>1. /\ Job(c) # <<d, "android">> /\ Job(c) # <<d, "ios">>
        /\ \A p, q : <<c, p>> # <<d, q>>
        /\ \A p \in Platforms : <<d, p>> \in Jobs
    BY <1>1 DEF Job, Jobs, Platforms
  <2>2. CASE ReadVersion(c)
    <3>1. /\ UNCHANGED <<index, tries, told, requests, build, submission>>
          /\ known' = [known EXCEPT ![c] = latest[P(c)]]
          /\ version' = version \/ (\E v : version' = [version EXCEPT ![<<c, P(c)>>] = v])
          /\ \E w : place' = [place EXCEPT ![c] = w]
          /\ outcome' = outcome \/ (\E w : outcome' = [outcome EXCEPT ![c] = w])
      BY <2>2 DEF ReadVersion, End, GoTo, service
    <3> QED BY <2>1, <3>1 DEF Untouched, Typed, BuildTypeOK
  <2>3. CASE WriteVersion(c) \/ WriteLost(c)
    <3>1. /\ UNCHANGED <<index, told, version, requests, build, submission>>
          /\ known' = known \/ (\E v : known' = [known EXCEPT ![c] = v])
          /\ tries' = tries \/ (\E w : tries' = [tries EXCEPT ![c] = w])
          /\ place' = place \/ (\E w : place' = [place EXCEPT ![c] = w])
          /\ outcome' = outcome \/ (\E w : outcome' = [outcome EXCEPT ![c] = w])
      BY <2>3 DEF WriteVersion, WriteLost, Written, End, GoTo, history
    <3> QED BY <3>1 DEF Untouched, Typed, BuildTypeOK
  <2>4. CASE SendBuild(c) \/ SendLost(c)
    <3>1. /\ UNCHANGED <<tries, told, version, submission, known>>
          /\ requests' = [requests EXCEPT ![Job(c)] = @ + 1]
          /\ build' = [build EXCEPT ![Job(c)] = "active"]
          /\ index' = index \/ (\E i : index' = [index EXCEPT ![c] = i])
          /\ place' = place \/ (\E w : place' = [place EXCEPT ![c] = w])
          /\ outcome' = outcome \/ (\E w : outcome' = [outcome EXCEPT ![c] = w])
      BY <2>4 DEF SendBuild, SendLost, Requested, AfterBuildStarted, Wait, End, GoTo, history
    <3> QED BY <2>1, <3>1 DEF Untouched, Typed, BuildTypeOK, Platforms
  <2>5. CASE Submit(c) \/ SubmitLost(c)
    <3>1. /\ UNCHANGED <<tries, told, version, known, requests, build>>
          /\ submission' = [submission EXCEPT ![Job(c)] = "active"]
          /\ index' = index \/ (\E i : index' = [index EXCEPT ![c] = i])
          /\ place' = place \/ (\E w : place' = [place EXCEPT ![c] = w])
          /\ outcome' = outcome \/ (\E w : outcome' = [outcome EXCEPT ![c] = w])
      BY <2>5 DEF Submit, SubmitLost, Submitted, AfterSubmissionStarted, Wait, End, GoTo, history
    <3> QED BY <2>1, <3>1 DEF Untouched, Typed, BuildTypeOK, Platforms
  <2>6. ASSUME JudgeBuilds(c) \/ JudgeSubmissions(c) \/ Throw(c) \/ Interrupt(c)
               \/ \E p \in Platforms : Answer(c, p) \/ QueryFails(c, p)
        PROVE  Untouched(d)
    <3>1. /\ UNCHANGED <<index, tries, version, known, requests, build, submission>>
          /\ place' = place \/ (\E w : place' = [place EXCEPT ![c] = w])
          /\ outcome' = outcome \/ (\E w : outcome' = [outcome EXCEPT ![c] = w])
          /\ \/ told' = told \/ Round(c)
             \/ \E p, w : told' = [told EXCEPT ![<<c, p>>] = w]
      BY <2>6 DEF JudgeBuilds, JudgeSubmissions, Throw, Interrupt, Answer, QueryFails, End, GoTo,
                  history, service
    <3>2. ASSUME NEW p \in Platforms PROVE told'[<<d, p>>] = told[<<d, p>>]
      <4>1. /\ <<d, p>> \in Jobs /\ <<d, p>>[1] # c /\ told \in [Jobs -> {"asked", "active"} \cup Ended]
            /\ \A q : <<d, p>> # <<c, q>>
        BY <2>1 DEF Typed, BuildTypeOK
      <4>2. CASE told' = told
        BY <4>2
      <4>3. CASE Round(c)
        <5> DEFINE j == <<d, p>>
        <5> HIDE DEF j
        <5> SUFFICES told'[j] = told[j]
          BY DEF j
        <5> QED BY <4>1, <4>3 DEF Round, j
      <4>4. CASE \E q, w : told' = [told EXCEPT ![<<c, q>>] = w]
        BY <4>1, <4>4
      <4> QED BY <3>1, <4>2, <4>3, <4>4
    <3> QED BY <3>1, <3>2 DEF Untouched, Typed, BuildTypeOK
  <2> QED BY <2>2, <2>3, <2>4, <2>5, <2>6 DEF Moves, Command
<1> QED BY <1>1, <1>2, <1>3

-----------------------------------------------------------------------------
(* The shape of every variable.                                             *)

Places == {"read", "write", "send", "submit", "builds", "submissions", "over"}

LEMMA InitTyped == BuildInit => Typed
<1> SUFFICES ASSUME BuildInit PROVE Typed
  OBVIOUS
<1> USE CommandAssumption
<1>1. PICK q \in Projects : local = q.local /\ latest = q.latest
  BY DEF BuildInit
<1>2. latest \in [Platforms -> Nat] /\ Limited(latest["android"])
  BY <1>1 DEF Limited
<1>3. ASSUME NEW c \in DOMAIN flags PROVE index[c] \in DOMAIN Order(c)
  <2>1. flags \in Options /\ index = [d \in Invocations |-> 1] BY DEF BuildInit
  <2>2. c \in Invocations /\ Len(Order(c)) \in 1..2 /\ DOMAIN Order(c) = 1..Len(Order(c))
    BY <2>1, OrderIs
  <2>3. index[c] = 1 BY <2>1, <2>2
  <2> QED BY <2>2, <2>3
<1>4. Limited(Unset) /\ Unset \in Nat
  BY DEF Limited, Unset
<1>5. \A c \in Invocations : <<c, "android">> \in Jobs /\ \A p \in Platforms : <<c, p>> \in Jobs
  BY DEF Jobs, Platforms
<1>6. BuildTypeOK
  BY <1>2, <1>3, <1>4, <1>5 DEF BuildInit, BuildTypeOK
<1>7. \A c \in Invocations \ DOMAIN flags :
         place[c] = "over" /\ \A p \in Platforms : requests[<<c, p>>] = 0
  BY <1>5 DEF BuildInit
<1> QED BY <1>1, <1>2, <1>6, <1>7 DEF Typed

\* The steps that leave the versions and the server alone.
LEMMA AfterStartTyped ==
  ASSUME Typed, NEW c \in DOMAIN flags, flags' = flags,
         AfterBuildStarted(c) \/ AfterSubmissionStarted(c)
  PROVE  /\ place' \in [Invocations -> Places]
         /\ outcome' \in [Invocations -> {"none", "ok", "exit1", "threw", "killed"}]
         /\ index' \in [Invocations -> 1..2]
         /\ \A d \in DOMAIN flags : index'[d] \in DOMAIN Order(d)
<1>1. /\ index[c] \in DOMAIN Order(c) /\ DOMAIN Order(c) = 1..Len(Order(c))
      /\ Len(Order(c)) \in 1..2 /\ c \in Invocations /\ index \in [Invocations -> 1..2]
      /\ \A d \in DOMAIN flags : d \in Invocations
  BY OrderIs DEF Typed, BuildTypeOK
<1>2. \/ index' = index \/ index' = [index EXCEPT ![c] = 1]
      \/ index[c] < Len(Order(c)) /\ index' = [index EXCEPT ![c] = @ + 1]
  BY DEF AfterBuildStarted, AfterSubmissionStarted
<1>3. index' \in [Invocations -> 1..2] /\ \A d \in DOMAIN flags : index'[d] \in DOMAIN Order(d)
  <2>1. CASE index' = index
    BY <1>1, <2>1 DEF Typed, BuildTypeOK
  <2>2. CASE index' = [index EXCEPT ![c] = 1]
    <3>1. index' \in [Invocations -> 1..2] /\ index'[c] = 1 BY <1>1, <2>2
    <3>2. \A d \in DOMAIN flags : d # c => index'[d] = index[d] BY <1>1, <2>2
    <3>3. 1 \in DOMAIN Order(c) BY <1>1
    <3>4. \A d \in DOMAIN flags : index[d] \in DOMAIN Order(d) BY DEF Typed, BuildTypeOK
    <3> QED BY <3>1, <3>2, <3>3, <3>4
  <2>3. CASE index[c] < Len(Order(c)) /\ index' = [index EXCEPT ![c] = @ + 1]
    <3>1. index' \in [Invocations -> 1..2] /\ index'[c] \in DOMAIN Order(c) BY <1>1, <2>3
    <3>2. \A d \in DOMAIN flags : d # c => index'[d] = index[d] BY <1>1, <2>3
    <3> QED BY <3>1, <3>2 DEF Typed, BuildTypeOK
  <2> QED BY <1>2, <2>1, <2>2, <2>3
<1>4. place' \in [Invocations -> Places]
  BY DEF AfterBuildStarted, AfterSubmissionStarted, Wait, End, GoTo, Typed, BuildTypeOK, Places
<1>5. outcome' \in [Invocations -> {"none", "ok", "exit1", "threw", "killed"}]
  BY DEF AfterBuildStarted, AfterSubmissionStarted, Wait, End, GoTo, Typed, BuildTypeOK
<1> QED BY <1>3, <1>4, <1>5

LEMMA MoveTyped ==
  ASSUME Typed, OutcomeInv, NEW c \in Invocations, Moves(c)
  PROVE  Typed'
<1> USE CommandAssumption
<1>1. c \in DOMAIN flags /\ flags' = flags /\ local' = local
      /\ \A d \in Invocations \ {c} : Untouched(d)
  BY MovesOne DEF inputs
<1>2. P(c) \in Platforms /\ Job(c) \in Jobs /\ Job(c) = <<c, P(c)>>
  BY <1>1, PlatformIs
<1>3. \A d \in Invocations, p \in Platforms : <<d, p>> \in Jobs
  BY DEF Jobs
<1>4. "android" \in Platforms
  BY DEF Platforms
<1>5. CASE ReadVersion(c)
  <2>1. local[P(c)].version \in Nat /\ latest[P(c)] \in Nat
    <3>1. PICK q \in Projects : local = q.local BY DEF Typed
    <3> QED BY <1>2, <3>1 DEF Typed, BuildTypeOK
  <2>2. Current(P(c)) \in Nat /\ Current(P(c)) + 1 \in Nat
    BY <2>1 DEF Current
  <2>3. P(c) = "android" => Limited(Current(P(c)))
    <3>1. PICK q \in Projects : local = q.local BY DEF Typed
    <3> QED BY <3>1 DEF Typed, Current, Limited
  <2>4. version' \in [Jobs -> Nat]
    BY <1>2, <1>5, <2>2 DEF ReadVersion, Typed, BuildTypeOK
  <2>5. Limited(version'[<<c, "android">>])
    <3>1. CASE version' = version
      BY <3>1 DEF Typed, BuildTypeOK
    <3>2. CASE version' # version
      <4>1. /\ version' = [version EXCEPT ![<<c, P(c)>>] =
                  IF Keeps(c, P(c)) \/ Initializes(c, P(c)) THEN Current(P(c))
                  ELSE Current(P(c)) + 1]
            /\ Keeps(c, P(c)) \/ Initializes(c, P(c)) \/ ~AtLimit(P(c), Current(P(c)))
        BY <1>5, <3>2 DEF ReadVersion
      <4>2. CASE P(c) # "android"
        BY <1>3, <1>4, <4>1, <4>2 DEF Typed, BuildTypeOK
      <4>3. CASE P(c) = "android"
        <5>1. version'[<<c, "android">>] =
                IF Keeps(c, P(c)) \/ Initializes(c, P(c)) THEN Current(P(c)) ELSE Current(P(c)) + 1
          BY <1>3, <1>4, <4>1, <4>3 DEF Typed, BuildTypeOK
        <5>2. ~AtLimit(P(c), Current(P(c))) => Current(P(c)) + 1 <= MaxVersionCode
          BY <2>2, <4>3 DEF AtLimit
        <5> QED BY <2>3, <4>1, <4>3, <5>1, <5>2 DEF Limited
      <4> QED BY <4>2, <4>3
    <3> QED BY <3>1, <3>2
  <2>6. known' \in [Invocations -> Nat]
    BY <1>5, <2>1 DEF ReadVersion, Typed, BuildTypeOK
  <2>7. place' \in [Invocations -> Places]
        /\ outcome' \in [Invocations -> {"none", "ok", "exit1", "threw", "killed"}]
    BY <1>5 DEF ReadVersion, End, GoTo, Typed, BuildTypeOK, Places
  <2>8. UNCHANGED <<flags, local, index, tries, told, latest, requests, build, submission, raced>>
    BY <1>1, <1>5 DEF ReadVersion, service
  <2>9. \A d \in Invocations : Limited(version'[<<d, "android">>])
    <3>1. \A d \in Invocations \ {c} : version'[<<d, "android">>] = version[<<d, "android">>]
      BY <1>1, <1>4 DEF Untouched
    <3>2. \A d \in Invocations : Limited(version[<<d, "android">>])
      BY DEF Typed, BuildTypeOK
    <3> QED BY <2>5, <3>1, <3>2
  <2>10. BuildTypeOK'
    BY <2>4, <2>6, <2>7, <2>8, <2>9 DEF Typed, BuildTypeOK, Places, Order, Limited
  <2> QED BY <1>1, <2>8, <2>10 DEF Typed, Untouched, Limited
<1>6. CASE WriteVersion(c) \/ WriteLost(c)
  <2>1. version[Job(c)] \in Nat /\ (P(c) = "android" => Limited(version[Job(c)]))
    BY <1>2 DEF Typed, BuildTypeOK
  <2>2. latest' \in [Platforms -> Nat] /\ known' \in [Invocations -> Nat] /\ raced' \subseteq Platforms
    BY <1>2, <1>6, <2>1 DEF WriteVersion, WriteLost, Written, history, Typed, BuildTypeOK
  <2>3. Limited(latest'["android"])
    BY <1>2, <1>4, <1>6, <2>1 DEF WriteVersion, WriteLost, Written, Typed, BuildTypeOK
  <2>4. place' \in [Invocations -> Places]
        /\ outcome' \in [Invocations -> {"none", "ok", "exit1", "threw", "killed"}]
    BY <1>6 DEF WriteVersion, WriteLost, End, GoTo, Typed, BuildTypeOK, Places
  <2>5. tries' \in [Invocations -> 0..MaxAttempts - 1]
    <3>1. tries[c] \in 0..MaxAttempts - 1 BY DEF Typed, BuildTypeOK
    <3> QED BY <1>6, <3>1 DEF WriteVersion, WriteLost, Typed, BuildTypeOK
  <2>6. UNCHANGED <<flags, local, index, version, told, requests, build, submission>>
    BY <1>1, <1>6 DEF WriteVersion, WriteLost, inputs
  <2>7. BuildTypeOK'
    BY <2>2, <2>4, <2>5, <2>6 DEF Typed, BuildTypeOK, Places, Order, Limited
  <2> QED BY <1>1, <2>3, <2>6, <2>7 DEF Typed, Untouched, Limited
<1>7. CASE SendBuild(c) \/ SendLost(c) \/ Submit(c) \/ SubmitLost(c)
  <2>1. /\ place' \in [Invocations -> Places]
        /\ outcome' \in [Invocations -> {"none", "ok", "exit1", "threw", "killed"}]
        /\ index' \in [Invocations -> 1..2]
        /\ \A d \in DOMAIN flags : index'[d] \in DOMAIN Order(d)
    <3>1. CASE SendBuild(c) \/ Submit(c)
      BY <1>1, <3>1, AfterStartTyped DEF SendBuild, Submit
    <3>2. CASE SendLost(c) \/ SubmitLost(c)
      BY <3>2 DEF SendLost, SubmitLost, End, GoTo, Typed, BuildTypeOK, Places
    <3> QED BY <1>7, <3>1, <3>2
  <2>2. requests' \in [Jobs -> Nat]
    <3>1. requests' = requests \/ requests' = [requests EXCEPT ![Job(c)] = @ + 1]
      BY <1>7 DEF SendBuild, SendLost, Submit, SubmitLost, Requested
    <3>2. requests \in [Jobs -> Nat] BY DEF Typed, BuildTypeOK
    <3>3. requests[Job(c)] + 1 \in Nat BY <1>2, <3>2
    <3> QED BY <1>2, <3>1, <3>2, <3>3
  <2>3. build' \in [Jobs -> {"none", "active"} \cup Ended]
    <3>1. build' = build \/ build' = [build EXCEPT ![Job(c)] = "active"]
      BY <1>7 DEF SendBuild, SendLost, Submit, SubmitLost, Requested
    <3> QED BY <1>2, <3>1 DEF Typed, BuildTypeOK
  <2>4. submission' \in [Jobs -> {"none", "active"} \cup Ended]
    <3>1. submission' = submission \/ submission' = [submission EXCEPT ![Job(c)] = "active"]
      BY <1>7 DEF SendBuild, SendLost, Submit, SubmitLost, Submitted
    <3> QED BY <1>2, <3>1 DEF Typed, BuildTypeOK
  <2>5. UNCHANGED <<flags, local, tries, version, told, latest, known, raced>>
    BY <1>1, <1>7 DEF SendBuild, SendLost, Submit, SubmitLost, history
  <2>6. BuildTypeOK'
    BY <2>1, <2>2, <2>3, <2>4, <2>5 DEF Typed, BuildTypeOK, Places, Order, Limited
  <2> QED BY <1>1, <2>5, <2>6 DEF Typed, Untouched, Limited
<1>8. ASSUME JudgeBuilds(c) \/ JudgeSubmissions(c) \/ Throw(c) \/ Interrupt(c)
             \/ \E p \in Platforms : Answer(c, p) \/ QueryFails(c, p)
      PROVE  Typed'
  <2>1. place' \in [Invocations -> Places]
    <3>1. place' = place \/ \E w \in Places : place' = [place EXCEPT ![c] = w]
      <4>1. CASE JudgeBuilds(c) \/ JudgeSubmissions(c) \/ Throw(c) \/ Interrupt(c)
        BY <4>1 DEF JudgeBuilds, JudgeSubmissions, Throw, Interrupt, End, GoTo, Places
      <4>2. CASE \E p \in Platforms : Answer(c, p) \/ QueryFails(c, p)
        BY <4>2 DEF Answer, QueryFails, End, GoTo, Places
      <4> QED BY <1>8, <4>1, <4>2
    <3>2. place \in [Invocations -> Places]
      BY DEF Typed, BuildTypeOK, Places
    <3> QED BY <3>1, <3>2
  <2>2. outcome' \in [Invocations -> {"none", "ok", "exit1", "threw", "killed"}]
    BY <1>8 DEF JudgeBuilds, JudgeSubmissions, Throw, Interrupt, Answer, QueryFails, End,
                ExitIfSome, Typed, BuildTypeOK
  <2>3. told' \in [Jobs -> {"asked", "active"} \cup Ended]
    <3>1. CASE \E p \in Platforms : Answer(c, p) \/ QueryFails(c, p)
      <4>1. PICK p \in Platforms : Answer(c, p) \/ QueryFails(c, p) BY <3>1
      <4>2. CASE QueryFails(c, p)
        BY <1>3, <4>2 DEF QueryFails, Typed, BuildTypeOK
      <4>3. CASE Answer(c, p)
        <5>1. told' = [told EXCEPT ![<<c, p>>] =
                         IF place[c] = "builds" THEN build[<<c, p>>] ELSE submission[<<c, p>>]]
              /\ place[c] \in {"builds", "submissions"} /\ p \in Of(c)
          BY <4>3 DEF Answer, Waiting, Unanswered
        <5>2. build[<<c, p>>] # "none" /\ (place[c] = "submissions" => submission[<<c, p>>] # "none")
          BY <1>1, <5>1 DEF OutcomeInv, Truthful, AllStarted, Requesting
        <5>3. /\ build[<<c, p>>] \in {"none", "active"} \cup Ended
              /\ submission[<<c, p>>] \in {"none", "active"} \cup Ended
          BY <1>3 DEF Typed, BuildTypeOK
        <5> QED BY <1>3, <5>1, <5>2, <5>3 DEF Typed, BuildTypeOK
      <4> QED BY <4>1, <4>2, <4>3
    <3>2. CASE JudgeBuilds(c) \/ JudgeSubmissions(c) \/ Throw(c) \/ Interrupt(c)
      <4>1. told' = told \/ Round(c)
        BY <3>2 DEF JudgeBuilds, JudgeSubmissions, Throw, Interrupt
      <4> QED BY <4>1 DEF Round, Typed, BuildTypeOK
    <3> QED BY <1>8, <3>1, <3>2
  <2>4. UNCHANGED <<flags, local, index, tries, version, latest, requests, build, submission, known,
                    raced>>
    BY <1>1, <1>8 DEF JudgeBuilds, JudgeSubmissions, Throw, Interrupt, Answer, QueryFails, service,
                      history
  <2>5. BuildTypeOK'
    BY <2>1, <2>2, <2>3, <2>4 DEF Typed, BuildTypeOK, Places, Order, Limited
  <2> QED BY <1>1, <2>4, <2>5 DEF Typed, Untouched, Limited
<1> QED BY <1>5, <1>6, <1>7, <1>8 DEF Moves, Command

\* A build or a submission comes to its end, and nothing else changes.
LEMMA EndsOne ==
  ASSUME Typed, NEW j \in Jobs, ServerEnds(j)
  PROVE  /\ Typed' /\ UNCHANGED <<inputs, command, latest, requests, history>>
         /\ place[j[1]] # "over" /\ flags[j[1]].wait
         /\ \A i \in Jobs \ {j} : build'[i] = build[i] /\ submission'[i] = submission[i]
         /\ \/ build[j] = "active" /\ build'[j] \in Ended /\ submission' = submission
            \/ /\ submission[j] = "active" /\ submission'[j] \in Ended /\ build' = build
               /\ submission'[j] = "finished" => build[j] = "finished"
<1>1. UNCHANGED <<inputs, command, latest, requests, history>>
      /\ place[j[1]] # "over" /\ flags[j[1]].wait
  BY DEF ServerEnds, BuildEnds, SubmissionEnds, Watched
<1>2. /\ build' \in [Jobs -> {"none", "active"} \cup Ended]
      /\ submission' \in [Jobs -> {"none", "active"} \cup Ended]
      /\ \A i \in Jobs \ {j} : build'[i] = build[i] /\ submission'[i] = submission[i]
      /\ \/ build[j] = "active" /\ build'[j] \in Ended /\ submission' = submission
         \/ /\ submission[j] = "active" /\ submission'[j] \in Ended /\ build' = build
            /\ submission'[j] = "finished" => build[j] = "finished"
  BY DEF ServerEnds, BuildEnds, SubmissionEnds, Typed, BuildTypeOK
<1>3. Typed'
  BY <1>1, <1>2 DEF Typed, BuildTypeOK, inputs, command, history, Limited, Order
<1> QED BY <1>1, <1>2, <1>3

-----------------------------------------------------------------------------
(* The versions.                                                            *)

LEMMA UntouchedSame ==
  ASSUME Typed, NEW d \in DOMAIN flags, Untouched(d), flags' = flags
  PROVE  /\ P(d)' = P(d) /\ Before(d)' = Before(d) /\ Of(d)' = Of(d)
         /\ RequestedOnce(d)' <=> RequestedOnce(d)
         /\ Newer(d)' <=> Newer(d)
         /\ \A p \in Platforms : Owns(d, p)' <=> Owns(d, p)
<1>1. P(d) \in Platforms BY PlatformIs
<1>2. P(d)' = P(d) /\ Before(d)' = Before(d) /\ Of(d)' = Of(d)
  BY DEF Untouched, P, Before, Of, Order
<1>3. RequestedOnce(d)' <=> RequestedOnce(d)
  BY <1>2 DEF Untouched, RequestedOnce
<1>4. Newer(d)' <=> Newer(d)
  BY <1>1, <1>2 DEF Untouched, Newer
<1>5. \A p \in Platforms : Owns(d, p)' <=> Owns(d, p)
  BY <1>2 DEF Untouched, Owns
<1> QED BY <1>2, <1>3, <1>4, <1>5

LEMMA InitVersion == BuildInit => VersionInv
<1> SUFFICES ASSUME BuildInit PROVE VersionInv
  OBVIOUS
<1>1. Typed BY InitTyped
<1>2. \A c \in DOMAIN flags : \A p \in Platforms :
        requests[<<c, p>>] = 0 /\ build[<<c, p>>] = "none" /\ place[c] = "read"
  <2> TAKE c \in DOMAIN flags
  <2> TAKE p \in Platforms
  <2>1. c \in Invocations /\ <<c, p>> \in Jobs BY <1>1, PlatformIs DEF Jobs
  <2> QED BY <2>1 DEF BuildInit
<1>3. \A c \in DOMAIN flags : RequestedOnce(c) /\ Newer(c)
  <2>1. ASSUME NEW c \in DOMAIN flags PROVE RequestedOnce(c)
    BY <1>2, 0 <= 1, 0 # 1 DEF RequestedOnce
  <2>2. \A c \in DOMAIN flags : place[c] = "read" BY <1>2 DEF Platforms
  <2> QED BY <2>1, <2>2 DEF Newer
<1>4. ASSUME NEW c \in Invocations, NEW p \in Platforms PROVE ~Increments(c, p)
  <2>1. CASE c \in DOMAIN flags
    <3>1. requests[<<c, p>>] = 0 /\ place[c] = "read" BY <1>2, <2>1
    <3>2. ~(requests[<<c, p>>] > 0) BY <3>1
    <3> QED BY <3>1, <3>2 DEF Increments, Owns
  <2> QED BY <2>1 DEF Increments
<1> QED BY <1>3, <1>4 DEF VersionInv, OwnersDiffer

\* Where nothing is requested, no request is before a command that was not before it.
LEMMA RequestsKept ==
  ASSUME Typed, NEW c \in DOMAIN flags, RequestedOnce(c), UNCHANGED <<flags, requests, build>>,
         place'[c] \in Requesting => place[c] \in Requesting /\ index' = index
  PROVE  RequestedOnce(c)'
<1>1. Of(c)' = Of(c) BY DEF Of, Order
<1>2. place'[c] \in Requesting => Before(c)' = Before(c) BY DEF Before, Order
<1> QED BY <1>1, <1>2 DEF RequestedOnce

\* A build is requested where none was before.
LEMMA RequestCounts ==
  ASSUME Typed, NEW c \in DOMAIN flags, RequestedOnce(c), flags' = flags,
         place[c] = "send", Requested(c), AfterBuildStarted(c) \/ place'[c] = "over"
  PROVE  RequestedOnce(c)'
<1>1. /\ c \in Invocations /\ P(c) \in Platforms /\ P(c) \in Of(c) /\ Job(c) = <<c, P(c)>>
      /\ P(c) \notin Before(c) /\ \A p \in Platforms : <<c, p>> \in Jobs
  BY PlatformIs DEF Jobs
<1>2. Of(c)' = Of(c) BY DEF Of, Order
<1>3. requests[<<c, P(c)>>] = 0 BY <1>1 DEF RequestedOnce, Requesting
<1>4. requests'[<<c, P(c)>>] = 1 /\ build'[<<c, P(c)>>] = "active"
  BY <1>1, <1>3 DEF Requested, Typed, BuildTypeOK
<1>5. \A p \in Platforms : p # P(c) =>
        requests'[<<c, p>>] = requests[<<c, p>>] /\ build'[<<c, p>>] = build[<<c, p>>]
  BY <1>1 DEF Requested, Typed, BuildTypeOK
<1>6. place'[c] \in Requesting => Before(c)' = Before(c) \cup {P(c)}
  <2>1. CASE index[c] < Len(Order(c)) /\ AfterBuildStarted(c)
    BY <2>1, NextPlatform DEF AfterBuildStarted
  <2>2. CASE ~(index[c] < Len(Order(c))) /\ AfterBuildStarted(c)
    BY <1>1, <2>2 DEF AfterBuildStarted, Wait, End, GoTo, Requesting, Typed, BuildTypeOK
  <2>3. CASE place'[c] = "over"
    BY <2>3 DEF Requesting
  <2> QED BY <2>1, <2>2, <2>3
<1>7. ASSUME NEW p \in Platforms
      PROVE  /\ requests'[<<c, p>>] <= 1 /\ (requests'[<<c, p>>] = 0 <=> build'[<<c, p>>] = "none")
             /\ requests'[<<c, p>>] = 1 => p \in Of(c)
             /\ place'[c] \in Requesting /\ p \notin Before(c)' => requests'[<<c, p>>] = 0
  <2>1. CASE p = P(c) BY <1>1, <1>4, <1>6, <2>1
  <2>2. CASE p # P(c) BY <1>5, <1>6, <2>2 DEF RequestedOnce, Requesting
  <2> QED BY <2>1, <2>2
<1> QED BY <1>2, <1>7 DEF RequestedOnce

LEMMA MoveRequestsOnce ==
  ASSUME Typed, NEW c \in DOMAIN flags, RequestedOnce(c), Moves(c), flags' = flags
  PROVE  RequestedOnce(c)'
<1>1. c \in Invocations BY PlatformIs
<1>2. CASE ReadVersion(c) \/ WriteVersion(c) \/ WriteLost(c)
  <2>1. UNCHANGED <<requests, build, index>> /\ place[c] \in Requesting
    BY <1>2 DEF ReadVersion, WriteVersion, WriteLost, service, Requesting
  <2> QED BY <2>1, RequestsKept
<1>3. CASE SendBuild(c) \/ SendLost(c)
  <2>1. /\ place[c] = "send" /\ Requested(c)
        /\ AfterBuildStarted(c) \/ place'[c] = "over"
    BY <1>1, <1>3 DEF SendBuild, SendLost, End, GoTo, Typed, BuildTypeOK
  <2> QED BY <2>1, RequestCounts
<1>4. CASE Submit(c) \/ SubmitLost(c)
  <2>1. UNCHANGED <<requests, build>> /\ place'[c] \notin Requesting
    BY <1>1, <1>4 DEF Submit, SubmitLost, AfterSubmissionStarted, Wait, End, GoTo, Requesting, Typed,
                      BuildTypeOK
  <2> QED BY <2>1, RequestsKept
<1>5. ASSUME JudgeBuilds(c) \/ JudgeSubmissions(c) \/ Throw(c) \/ Interrupt(c)
             \/ \E p \in Platforms : Answer(c, p) \/ QueryFails(c, p)
      PROVE  RequestedOnce(c)'
  <2>1. UNCHANGED <<requests, build>> /\ place'[c] \notin Requesting
    BY <1>1, <1>5 DEF JudgeBuilds, JudgeSubmissions, Throw, Interrupt, Answer, QueryFails, End, GoTo,
                      Requesting, Typed, BuildTypeOK, service, Waiting
  <2> QED BY <2>1, RequestsKept
<1> QED BY <1>2, <1>3, <1>4, <1>5 DEF Moves, Command

\* A version to be written is newer than what the command read before it.
LEMMA ReadNewer ==
  ASSUME Typed, NEW c \in DOMAIN flags, ReadVersion(c), flags' = flags
  PROVE  /\ P(c)' = P(c) /\ P(c) \in Platforms
         /\ place'[c] = "write" =>
              /\ version'[<<c, P(c)>>] # Unset /\ known'[c] <= version'[<<c, P(c)>>]
              /\ flags[c].autoIncrement => known'[c] # version'[<<c, P(c)>>]
         /\ place'[c] = "send" => ~flags[c].autoIncrement
         /\ \A p \in Platforms : p # P(c) => version'[<<c, p>>] = version[<<c, p>>]
<1>1. c \in Invocations /\ P(c) \in Platforms /\ \A p \in Platforms : <<c, p>> \in Jobs
  BY PlatformIs DEF Jobs
<1>2. P(c)' = P(c)
  BY DEF ReadVersion, P, Order
<1>3. /\ known'[c] = latest[P(c)] /\ latest[P(c)] \in Nat /\ local[P(c)].version \in Nat
      /\ Current(P(c)) \in Nat
  <2>1. PICK q \in Projects : local = q.local BY DEF Typed
  <2>2. local[P(c)].version \in Nat BY <1>1, <2>1, CommandAssumption
  <2> QED BY <1>1, <2>2 DEF ReadVersion, Current, Typed, BuildTypeOK
<1>4. ASSUME place'[c] \in {"write", "send"}
      PROVE  /\ Current(P(c)) # Unset
             /\ version' = [version EXCEPT ![<<c, P(c)>>] =
                  IF Keeps(c, P(c)) \/ Initializes(c, P(c)) THEN Current(P(c))
                  ELSE Current(P(c)) + 1]
             /\ place'[c] = IF Keeps(c, P(c)) THEN "send" ELSE "write"
  BY <1>1, <1>4 DEF ReadVersion, End, GoTo, Typed, BuildTypeOK
<1>5. ASSUME place'[c] = "write"
      PROVE  /\ version'[<<c, P(c)>>] # Unset /\ known'[c] <= version'[<<c, P(c)>>]
             /\ flags[c].autoIncrement => known'[c] # version'[<<c, P(c)>>]
  <2>1. /\ ~Keeps(c, P(c)) /\ Current(P(c)) # Unset
        /\ version'[<<c, P(c)>>] = IF Initializes(c, P(c)) THEN Current(P(c)) ELSE Current(P(c)) + 1
    BY <1>1, <1>4, <1>5 DEF Typed, BuildTypeOK
  <2>2. CASE Initializes(c, P(c))
    <3>1. latest[P(c)] = Unset BY <2>2 DEF Initializes
    <3> QED BY <1>3, <2>1, <2>2, <3>1 DEF Unset
  <2>3. CASE ~Initializes(c, P(c))
    <3>1. latest[P(c)] = Unset \/ Current(P(c)) = latest[P(c)] BY DEF Current
    <3> QED BY <1>3, <2>1, <2>3, <3>1 DEF Unset
  <2> QED BY <2>2, <2>3
<1>6. place'[c] = "send" => ~flags[c].autoIncrement
  BY <1>4 DEF Keeps
<1>7. \A p \in Platforms : p # P(c) => version'[<<c, p>>] = version[<<c, p>>]
  BY <1>1 DEF ReadVersion, Typed, BuildTypeOK
<1> QED BY <1>1, <1>2, <1>5, <1>6, <1>7

\* What a write does, when it reaches the server.
LEMMA WriteIs ==
  ASSUME Typed, NEW c \in DOMAIN flags, WriteVersion(c) \/ WriteLost(c)
  PROVE  /\ place[c] = "write" /\ place'[c] \in {"write", "send", "over"}
         /\ UNCHANGED <<index, version, requests, build>>
         /\ \/ UNCHANGED <<latest, known, raced>> /\ place'[c] # "send"
            \/ /\ latest' = [latest EXCEPT ![P(c)] = version[<<c, P(c)>>]]
               /\ raced' = IF latest[P(c)] = known[c] THEN raced ELSE raced \cup {P(c)}
               /\ known'[c] = version[<<c, P(c)>>]
<1>1. c \in Invocations BY PlatformIs
<1>2. CASE WriteVersion(c)
  BY <1>1, <1>2 DEF WriteVersion, Written, GoTo, Typed, BuildTypeOK
<1>3. CASE WriteLost(c)
  BY <1>1, <1>3 DEF WriteLost, Written, End, GoTo, history, Typed, BuildTypeOK
<1> QED BY <1>2, <1>3

\* A command that is neither before a write nor a send afterwards only keeps what it built.
LEMMA MoveNewer ==
  ASSUME Typed, NEW c \in DOMAIN flags, Newer(c), Moves(c), flags' = flags
  PROVE  Newer(c)'
<1>1. c \in Invocations /\ P(c) \in Platforms BY PlatformIs
<1>2. CASE ReadVersion(c)
  BY <1>2, ReadNewer DEF Newer
<1>3. CASE WriteVersion(c) \/ WriteLost(c)
  <2>1. P(c)' = P(c) BY <1>3, WriteIs DEF P, Order
  <2>2. version[<<c, P(c)>>] \in Nat BY <1>1 DEF Typed, BuildTypeOK, Jobs
  <2> QED BY <1>3, <2>1, <2>2, WriteIs DEF Newer
<1>4. ASSUME Moves(c), ~ReadVersion(c), ~WriteVersion(c), ~WriteLost(c)
      PROVE  place'[c] # "write"
  BY <1>1, <1>4 DEF Moves, Command, SendBuild, SendLost, Submit, SubmitLost, JudgeBuilds,
     JudgeSubmissions, Answer, QueryFails, Throw, Interrupt, AfterBuildStarted,
     AfterSubmissionStarted, Wait, End, GoTo, Typed, BuildTypeOK, Waiting
<1> QED BY <1>2, <1>3, <1>4 DEF Newer

\* A step after which nothing more is owned, and no version is taken back.
LEMMA OwnersKept ==
  ASSUME Typed, OwnersDiffer, raced \subseteq raced',
         latest' \in [Platforms -> Nat],
         NEW p \in Platforms \ raced', latest[p] <= latest'[p],
         \A d \in Invocations : Increments(d, p)' =>
           Increments(d, p) /\ version'[<<d, p>>] = version[<<d, p>>]
  PROVE  \A c \in Invocations : Increments(c, p)' =>
           /\ version'[<<c, p>>] \in 1..latest'[p]
           /\ \A d \in Invocations \ {c} : Increments(d, p)' => version'[<<c, p>>] # version'[<<d, p>>]
<1>1. \A c \in Invocations : Increments(c, p) =>
        /\ version[<<c, p>>] \in 1..latest[p]
        /\ \A d \in Invocations \ {c} : Increments(d, p) => version[<<c, p>>] # version[<<d, p>>]
  BY DEF OwnersDiffer
<1>2. latest[p] \in Nat /\ latest'[p] \in Nat /\ 1..latest[p] \subseteq 1..latest'[p]
  BY DEF Typed, BuildTypeOK
<1> QED BY <1>1, <1>2

\* Nobody else's ownership depends on a step of c.
LEMMA OthersOwn ==
  ASSUME Typed, NEW c \in Invocations, Moves(c), NEW p \in Platforms, NEW d \in Invocations \ {c}
  PROVE  Increments(d, p)' => Increments(d, p) /\ version'[<<d, p>>] = version[<<d, p>>]
<1>1. flags' = flags /\ Untouched(d) BY MovesOne DEF inputs
<1>2. CASE d \in DOMAIN flags
  BY <1>1, <1>2, UntouchedSame DEF Increments, Untouched
<1>3. CASE d \notin DOMAIN flags
  BY <1>1, <1>3 DEF Increments
<1> QED BY <1>2, <1>3

\* Reading gives no version to a command that increments it.
LEMMA ReadOwns ==
  ASSUME Typed, NEW c \in DOMAIN flags, RequestedOnce(c), ReadVersion(c), flags' = flags,
         NEW p \in Platforms, Increments(c, p)'
  PROVE  Increments(c, p) /\ version'[<<c, p>>] = version[<<c, p>>]
<1>1. /\ c \in Invocations /\ P(c) \notin Before(c) /\ place[c] = "read" /\ requests' = requests
      /\ P(c) \in Platforms
  BY PlatformIs DEF ReadVersion, service
<1>2. requests[<<c, P(c)>>] = 0 BY <1>1 DEF RequestedOnce, Requesting
<1>3. p # P(c)
  <2> SUFFICES ASSUME p = P(c) PROVE FALSE
    OBVIOUS
  <2>1. ~(requests'[<<c, p>>] > 0) BY <1>1, <1>2
  <2>2. flags[c].autoIncrement BY DEF Increments
  <2>3. place'[c] = "send" \/ (place'[c] = "write" /\ known'[c] = version'[<<c, p>>])
    BY <2>1 DEF Increments, Owns
  <2> QED BY <2>2, <2>3, ReadNewer
<1>4. P(c)' = P(c) /\ version'[<<c, p>>] = version[<<c, p>>] BY <1>3, ReadNewer
<1>5. requests[<<c, p>>] > 0 BY <1>1, <1>3, <1>4 DEF Increments, Owns
<1> QED BY <1>4, <1>5 DEF Increments, Owns

\* What is requested was to be sent, and nothing else of a command changes hands.
LEMMA SendOwns ==
  ASSUME Typed, NEW c \in DOMAIN flags, SendBuild(c) \/ SendLost(c), flags' = flags,
         NEW p \in Platforms, Increments(c, p)'
  PROVE  Increments(c, p) /\ version'[<<c, p>>] = version[<<c, p>>]
<1>1. /\ c \in Invocations /\ Job(c) = <<c, P(c)>> /\ \A q \in Platforms : <<c, q>> \in Jobs
  BY PlatformIs DEF Jobs
<1>2. /\ place[c] = "send" /\ version' = version
      /\ requests' = [requests EXCEPT ![Job(c)] = @ + 1] /\ place'[c] \notin {"send", "write"}
  BY <1>1 DEF SendBuild, SendLost, Requested, AfterBuildStarted, Wait, End, GoTo, Typed, BuildTypeOK
<1>3. CASE p = P(c) BY <1>2, <1>3 DEF Increments, Owns
<1>4. CASE p # P(c)
  <2>1. requests'[<<c, p>>] = requests[<<c, p>>] BY <1>1, <1>2, <1>4 DEF Typed, BuildTypeOK
  <2> QED BY <1>2, <2>1 DEF Increments, Owns
<1> QED BY <1>3, <1>4

\* A command that is neither at a write nor a send afterwards keeps what it built.
LEMMA RestOwns ==
  ASSUME Typed, NEW c \in DOMAIN flags, Moves(c), ~ReadVersion(c), ~WriteVersion(c), ~WriteLost(c),
         ~SendBuild(c), ~SendLost(c), flags' = flags,
         NEW p \in Platforms, Increments(c, p)'
  PROVE  Increments(c, p) /\ version'[<<c, p>>] = version[<<c, p>>]
<1>1. c \in Invocations BY PlatformIs
<1>2. place'[c] \notin {"send", "write"} /\ version' = version /\ requests' = requests
  BY <1>1 DEF Moves, Command, Submit, SubmitLost, JudgeBuilds, JudgeSubmissions, Answer, QueryFails,
     Throw, Interrupt, AfterSubmissionStarted, Wait, End, GoTo, Typed, BuildTypeOK, Waiting, service
<1> QED BY <1>2 DEF Increments, Owns

\* A write makes the version its writer's, above every other, unless it is raced.
LEMMA WriteOwns ==
  ASSUME Typed, OwnersDiffer, NEW c \in DOMAIN flags, RequestedOnce(c), Newer(c), Moves(c),
         WriteVersion(c) \/ WriteLost(c), NEW p \in Platforms \ raced'
  PROVE  \A b \in Invocations : Increments(b, p)' =>
           /\ version'[<<b, p>>] \in 1..latest'[p]
           /\ \A d \in Invocations \ {b} : Increments(d, p)' => version'[<<b, p>>] # version'[<<d, p>>]
<1>1. /\ c \in Invocations /\ P(c) \in Platforms /\ \A q \in Platforms : <<c, q>> \in Jobs
      /\ flags' = flags
  BY PlatformIs, MovesOne DEF Jobs, inputs
<1>2. /\ place[c] = "write" /\ UNCHANGED <<index, version, requests>> /\ P(c)' = P(c)
      /\ raced \subseteq raced'
  BY <1>1, WriteIs DEF P, Order
<1>3. /\ version[<<c, P(c)>>] \in Nat \ {0} /\ known[c] \in Nat /\ known[c] <= version[<<c, P(c)>>]
      /\ latest \in [Platforms -> Nat]
  BY <1>1, <1>2 DEF Newer, Unset, Typed, BuildTypeOK
<1>4. latest' \in [Platforms -> Nat]
  BY <1>1, <1>3, WriteIs
<1>5. CASE UNCHANGED <<latest, known, raced>> /\ place'[c] # "send"
  <2>1. Increments(c, p)' => Increments(c, p)
    BY <1>1, <1>2, <1>5, WriteIs DEF Increments, Owns
  <2>2. latest[p] <= latest'[p] BY <1>3, <1>5
  <2> QED BY <1>1, <1>2, <1>4, <2>1, <2>2, OthersOwn, OwnersKept
<1>6. CASE /\ latest' = [latest EXCEPT ![P(c)] = version[<<c, P(c)>>]]
           /\ raced' = IF latest[P(c)] = known[c] THEN raced ELSE raced \cup {P(c)}
           /\ known'[c] = version[<<c, P(c)>>]
  <2>1. CASE p # P(c)
    <3>1. Increments(c, p)' => Increments(c, p) BY <1>1, <1>2, <2>1 DEF Increments, Owns
    <3>2. latest[p] <= latest'[p] BY <1>3, <1>6, <2>1
    <3> QED BY <1>1, <1>2, <1>4, <3>1, <3>2, OthersOwn, OwnersKept
  <2>2. CASE p = P(c)
    <3>1. latest[p] = known[c] /\ latest'[p] = version[<<c, p>>] /\ p \notin raced
      BY <1>3, <1>6, <2>2
    <3>2. CASE known[c] = version[<<c, p>>]
      <4>1. Increments(c, p)' => Increments(c, p)
        BY <1>1, <1>2, <2>2, <3>2 DEF Increments, Owns
      <4>2. latest[p] <= latest'[p] BY <1>3, <2>2, <3>1
      <4> QED BY <1>1, <1>2, <1>4, <4>1, <4>2, OthersOwn, OwnersKept
    <3>3. CASE known[c] # version[<<c, p>>]
      <4>1. latest[p] < version[<<c, p>>] BY <1>3, <2>2, <3>1, <3>3
      <4>2. ASSUME NEW d \in Invocations \ {c}, Increments(d, p)'
            PROVE  /\ version'[<<d, p>>] \in 1..latest[p] /\ version'[<<d, p>>] < version[<<c, p>>]
                   /\ Increments(d, p) /\ version'[<<d, p>>] = version[<<d, p>>]
        <5>1. Increments(d, p) /\ version'[<<d, p>>] = version[<<d, p>>]
          BY <1>1, <4>2, OthersOwn
        <5>2. version[<<d, p>>] \in 1..latest[p] BY <3>1, <5>1 DEF OwnersDiffer
        <5>3. latest[p] \in Nat /\ version[<<c, p>>] \in Nat BY <1>3, <2>2
        <5> QED BY <4>1, <5>1, <5>2, <5>3
      <4>3. version'[<<c, p>>] = version[<<c, p>>] BY <1>2
      <4>4. 1..latest[p] \subseteq 1..latest'[p] /\ version[<<c, p>>] \in 1..latest'[p]
        BY <1>3, <2>2, <3>1, <4>1
      <4>5. ASSUME NEW b \in Invocations, Increments(b, p)'
            PROVE  version'[<<b, p>>] \in 1..latest'[p]
        BY <4>2, <4>3, <4>4, <4>5
      <4>6. ASSUME NEW b \in Invocations, NEW d \in Invocations \ {b},
                   Increments(b, p)', Increments(d, p)'
            PROVE  version'[<<b, p>>] # version'[<<d, p>>]
        <5>1. CASE b # c /\ d # c
          <6>1. /\ Increments(b, p) /\ version'[<<b, p>>] = version[<<b, p>>]
                /\ Increments(d, p) /\ version'[<<d, p>>] = version[<<d, p>>]
            BY <4>2, <4>6, <5>1
          <6> QED BY <3>1, <6>1 DEF OwnersDiffer
        <5>2. CASE b = c
          <6>1. version'[<<d, p>>] < version[<<c, p>>] /\ version'[<<d, p>>] \in 1..latest[p]
            BY <4>2, <4>6, <5>2
          <6> QED BY <1>3, <2>2, <4>3, <5>2, <6>1
        <5>3. CASE d = c
          <6>1. version'[<<b, p>>] < version[<<c, p>>] /\ version'[<<b, p>>] \in 1..latest[p]
            BY <4>2, <4>6, <5>3
          <6> QED BY <1>3, <2>2, <4>3, <5>3, <6>1
        <5> QED BY <5>1, <5>2, <5>3
      <4> QED BY <4>5, <4>6
    <3> QED BY <3>2, <3>3
  <2> QED BY <2>1, <2>2
<1> QED BY <1>5, <1>6, WriteIs

LEMMA MoveVersion ==
  ASSUME Typed, VersionInv, NEW c \in Invocations, Moves(c)
  PROVE  VersionInv'
<1>1. c \in DOMAIN flags /\ flags' = flags /\ \A d \in Invocations \ {c} : Untouched(d)
  BY MovesOne DEF inputs
<1>2. \A d \in DOMAIN flags : d \in Invocations
  BY PlatformIs
<1>3. RequestedOnce(c) /\ Newer(c) /\ RequestedOnce(c)' /\ Newer(c)'
  BY <1>1, MoveRequestsOnce, MoveNewer DEF VersionInv
<1>4. ASSUME NEW d \in DOMAIN flags, d # c PROVE RequestedOnce(d)' /\ Newer(d)'
  BY <1>1, <1>2, <1>4, UntouchedSame DEF VersionInv
<1>5. OwnersDiffer'
  <2> SUFFICES ASSUME NEW p \in Platforms \ raced'
               PROVE  \A b \in Invocations : Increments(b, p)' =>
                        /\ version'[<<b, p>>] \in 1..latest'[p]
                        /\ \A d \in Invocations \ {b} :
                             Increments(d, p)' => version'[<<b, p>>] # version'[<<d, p>>]
    BY DEF OwnersDiffer
  <2>1. CASE WriteVersion(c) \/ WriteLost(c)
    BY <1>1, <1>3, <2>1, WriteOwns DEF VersionInv
  <2>2. CASE ~(WriteVersion(c) \/ WriteLost(c))
    <3>1. UNCHANGED <<latest, raced>>
      BY <2>2 DEF Moves, Command, ReadVersion, SendBuild, SendLost, Submit, SubmitLost, JudgeBuilds,
         JudgeSubmissions, Answer, QueryFails, Throw, Interrupt, service, history
    <3>2. latest \in [Platforms -> Nat] /\ latest[p] <= latest'[p]
      BY <3>1 DEF Typed, BuildTypeOK
    <3>3. Increments(c, p)' => Increments(c, p) /\ version'[<<c, p>>] = version[<<c, p>>]
      BY <1>1, <1>3, <2>2, ReadOwns, SendOwns, RestOwns
    <3>4. \A d \in Invocations :
            Increments(d, p)' => Increments(d, p) /\ version'[<<d, p>>] = version[<<d, p>>]
      BY <3>3, OthersOwn
    <3> QED BY <3>1, <3>2, <3>4, OwnersKept DEF VersionInv
  <2> QED BY <2>1, <2>2
<1> QED BY <1>1, <1>3, <1>4, <1>5 DEF VersionInv

LEMMA EndsVersion ==
  ASSUME Typed, VersionInv, NEW j \in Jobs, ServerEnds(j)
  PROVE  VersionInv'
<1>1. /\ UNCHANGED <<flags, place, index, version, latest, requests, known, raced>>
      /\ \A i \in Jobs : build'[i] = "none" <=> build[i] = "none"
  BY EndsOne DEF inputs, command, history, Ended
<1>2. ASSUME NEW c \in DOMAIN flags PROVE RequestedOnce(c)' /\ Newer(c)'
  <2>1. RequestedOnce(c) /\ Newer(c) /\ \A p \in Platforms : <<c, p>> \in Jobs
    BY PlatformIs DEF VersionInv, Jobs
  <2>2. Of(c)' = Of(c) /\ Before(c)' = Before(c) /\ P(c)' = P(c)
    BY <1>1 DEF Of, Before, P, Order
  <2> QED BY <1>1, <2>1, <2>2 DEF RequestedOnce, Newer
<1>3. OwnersDiffer'
  BY <1>1 DEF VersionInv, OwnersDiffer, Increments, Owns, P, Order
<1> QED BY <1>1, <1>2, <1>3 DEF VersionInv

-----------------------------------------------------------------------------
(* The builds, the submissions and the exit code.                           *)

LEMMA UntouchedSound ==
  ASSUME Typed, NEW d \in DOMAIN flags, Untouched(d), flags' = flags, Truthful(d)
  PROVE  Truthful(d)'
<1>1. Of(d)' = Of(d) /\ Before(d)' = Before(d) /\ Of(d) \subseteq Platforms
      /\ Before(d) \subseteq Of(d)
  BY UntouchedSame, PlatformIs, OrderIs DEF Typed, BuildTypeOK
<1>2. AllStarted(d)' /\ SeenTrue(d)' /\ SubmitsFinished(d)'
  <2>1. AllStarted(d)' BY <1>1 DEF Untouched, AllStarted, Truthful
  <2>2. SeenTrue(d)' BY <1>1 DEF Untouched, SeenTrue, Truthful
  <2>3. SubmitsFinished(d)' BY <1>1 DEF Untouched, SubmitsFinished, Truthful
  <2> QED BY <2>1, <2>2, <2>3
<1>3. Exits(d)'
  <2>1. /\ \A p \in Of(d) : build'[<<d, p>>] = build[<<d, p>>] /\ submission'[<<d, p>>] = submission[<<d, p>>]
        /\ outcome'[d] = outcome[d]
    BY <1>1 DEF Untouched
  <2> QED BY <1>1, <2>1, SMTT(30) DEF Exits, Truthful
<1> QED BY <1>2, <1>3 DEF Truthful, Untouched, Waiting

LEMMA InitSound == BuildInit => OutcomeInv
<1> SUFFICES ASSUME BuildInit, NEW c \in DOMAIN flags PROVE Truthful(c)
  BY DEF OutcomeInv
<1>1. Typed BY InitTyped
<1>2. c \in Invocations /\ Of(c) \subseteq Platforms /\ \A p \in Platforms : <<c, p>> \in Jobs
  BY <1>1, PlatformIs, OrderIs DEF Jobs, Typed, BuildTypeOK
<1>3. /\ place[c] = "read" /\ outcome[c] = "none" /\ index[c] = 1
      /\ \A p \in Platforms : told[<<c, p>>] = "asked" /\ submission[<<c, p>>] = "none"
  BY <1>2 DEF BuildInit
<1>4. Before(c) = {} BY <1>3 DEF Before
<1> QED BY <1>2, <1>3, <1>4 DEF Truthful, AllStarted, SeenTrue, SubmitsFinished, Exits, Waiting, Requesting,
        Ended

\* A submission follows a build, whatever c does.
LEMMA MoveSubmits ==
  ASSUME Typed, NEW c \in DOMAIN flags, Truthful(c), RequestedOnce(c), Moves(c)
  PROVE  SubmitsFinished(c)'
<1>1. /\ c \in Invocations /\ P(c) \in Platforms /\ P(c) \in Of(c) /\ Job(c) = <<c, P(c)>>
      /\ P(c) \notin Before(c) /\ \A p \in Platforms : <<c, p>> \in Jobs
  BY PlatformIs DEF Jobs
<1>2. CASE SendBuild(c) \/ SendLost(c)
  <2>1. place[c] = "send" /\ Requested(c) /\ submission' = submission
    BY <1>2 DEF SendBuild, SendLost
  <2>2. requests[<<c, P(c)>>] = 0 BY <1>1, <2>1 DEF RequestedOnce, Requesting
  <2>3. submission[<<c, P(c)>>] = "none" BY <1>1, <2>2 DEF Truthful, SubmitsFinished
  <2>4. \A p \in Platforms : p # P(c) =>
          requests'[<<c, p>>] = requests[<<c, p>>] /\ build'[<<c, p>>] = build[<<c, p>>]
    BY <1>1, <2>1 DEF Requested, Typed, BuildTypeOK
  <2> QED BY <2>1, <2>3, <2>4 DEF Truthful, SubmitsFinished
<1>3. CASE Submit(c) \/ SubmitLost(c)
  <2>1. place[c] = "submit" /\ Submitted(c) /\ UNCHANGED <<build, requests>>
    BY <1>3 DEF Submit, SubmitLost
  <2>2. build[<<c, P(c)>>] # "none" BY <1>1, <2>1 DEF Truthful, AllStarted, Requesting
  <2>3. requests[<<c, P(c)>>] = 1
    <3>1. requests[<<c, P(c)>>] \in Nat BY <1>1 DEF Typed, BuildTypeOK
    <3>2. requests[<<c, P(c)>>] <= 1 /\ requests[<<c, P(c)>>] # 0 BY <1>1, <2>2 DEF RequestedOnce
    <3> QED BY <3>1, <3>2
  <2>4. /\ submission'[<<c, P(c)>>] = "active"
        /\ \A p \in Platforms : p # P(c) => submission'[<<c, p>>] = submission[<<c, p>>]
    BY <1>1, <2>1 DEF Submitted, Typed, BuildTypeOK
  <2>5. ASSUME NEW p \in Platforms
        PROVE  /\ submission'[<<c, p>>] = "finished" => build'[<<c, p>>] = "finished"
               /\ submission'[<<c, p>>] # "none" => requests'[<<c, p>>] = 1
    <3>1. CASE p = P(c) BY <2>1, <2>3, <2>4, <3>1
    <3>2. CASE p # P(c) BY <2>1, <2>4, <3>2 DEF Truthful, SubmitsFinished
    <3> QED BY <3>1, <3>2
  <2> QED BY <2>5 DEF SubmitsFinished
<1>4. CASE ~(SendBuild(c) \/ SendLost(c) \/ Submit(c) \/ SubmitLost(c))
  <2>1. UNCHANGED <<build, submission, requests>>
    BY <1>4 DEF Moves, Command, ReadVersion, WriteVersion, WriteLost, JudgeBuilds, JudgeSubmissions,
       Answer, QueryFails, Throw, Interrupt, service
  <2> QED BY <2>1 DEF Truthful, SubmitsFinished
<1> QED BY <1>2, <1>3, <1>4

\* A command that is cut short tells nothing.
LEMMA CutShort ==
  ASSUME NEW c, SubmitsFinished(c)', place'[c] = "over", outcome'[c] \in {"threw", "killed"}
  PROVE  Truthful(c)'
BY DEF Truthful, AllStarted, SeenTrue, Exits, Waiting, Requesting

\* A command that still asks for its builds has started those before it.
LEMMA GoesOnRequesting ==
  ASSUME Typed, NEW c \in DOMAIN flags, Truthful(c), SubmitsFinished(c)', flags' = flags,
         place[c] \in Requesting, place'[c] \in Requesting, outcome'[c] = outcome[c], told' = told,
         \A p \in Before(c)' : build'[<<c, p>>] # "none"
  PROVE  Truthful(c)'
<1>1. outcome[c] = "none" /\ \A p \in Platforms : told'[<<c, p>>] = "asked"
  BY DEF Truthful, Requesting
<1>2. place'[c] \notin {"over", "submit", "builds", "submissions"}
  BY DEF Requesting
<1> QED BY <1>1, <1>2 DEF Truthful, AllStarted, SeenTrue, Exits, Waiting

\* A command that waits, once all is started.
LEMMA Waits ==
  ASSUME Typed, NEW c \in DOMAIN flags, Truthful(c), SubmitsFinished(c)', flags' = flags, Wait(c),
         told' = told, place[c] \in Requesting \cup {"submit"},
         \A p \in Of(c) : build'[<<c, p>>] # "none",
         flags[c].autoSubmit => \A p \in Of(c) : submission'[<<c, p>>] # "none"
  PROVE  Truthful(c)'
<1>1. c \in Invocations /\ Of(c)' = Of(c) /\ Of(c) \subseteq Platforms
  BY PlatformIs, OrderIs DEF Of, Order, Typed, BuildTypeOK
<1>2. /\ outcome[c] = "none" /\ \A p \in Platforms : told'[<<c, p>>] = "asked"
  BY DEF Truthful, Requesting
<1>3. CASE flags[c].wait
  <2>1. place'[c] = "builds" /\ outcome'[c] = "none"
    BY <1>1, <1>2, <1>3 DEF Wait, GoTo, Typed, BuildTypeOK
  <2> QED BY <1>1, <1>2, <1>3, <2>1 DEF Truthful, AllStarted, SeenTrue, Exits, Waiting, Requesting, Ended
<1>4. CASE ~flags[c].wait
  <2>1. place'[c] = "over" /\ outcome'[c] = "ok"
    BY <1>1, <1>4 DEF Wait, End, GoTo, Typed, BuildTypeOK
  <2> QED BY <1>1, <1>4, <2>1 DEF Truthful, AllStarted, SeenTrue, Exits, Waiting, Requesting
<1> QED BY <1>3, <1>4

LEMMA SendSound ==
  ASSUME Typed, NEW c \in DOMAIN flags, Truthful(c), SubmitsFinished(c)', flags' = flags, SendBuild(c)
  PROVE  Truthful(c)'
<1>1. /\ c \in Invocations /\ P(c) \in Platforms /\ P(c) \in Of(c) /\ Job(c) = <<c, P(c)>>
      /\ \A p \in Platforms : <<c, p>> \in Jobs
      /\ Before(c) \subseteq Of(c) /\ Of(c) \subseteq Platforms
      /\ ~(index[c] < Len(Order(c))) => Of(c) = Before(c) \cup {P(c)}
  BY PlatformIs, OrderIs DEF Jobs, Typed, BuildTypeOK
<1>2. /\ place[c] = "send" /\ Requested(c) /\ AfterBuildStarted(c) /\ UNCHANGED <<told, submission>>
      /\ outcome[c] = "none"
  BY DEF SendBuild, Truthful
<1>3. build'[<<c, P(c)>>] = "active"
      /\ \A p \in Platforms : p # P(c) => build'[<<c, p>>] = build[<<c, p>>]
  BY <1>1, <1>2 DEF Requested, Typed, BuildTypeOK
<1>4. \A p \in Before(c) \cup {P(c)} : build'[<<c, p>>] # "none"
  <2>1. \A p \in Before(c) : build[<<c, p>>] # "none" BY <1>2 DEF Truthful, AllStarted, Requesting
  <2> QED BY <1>1, <1>3, <2>1
<1>5. CASE index[c] < Len(Order(c))
  <2>1. place'[c] = "read" /\ outcome'[c] = outcome[c] /\ Before(c)' = Before(c) \cup {P(c)}
    BY <1>1, <1>2, <1>5, NextPlatform DEF AfterBuildStarted, GoTo, Typed, BuildTypeOK
  <2> QED BY <1>2, <1>4, <2>1, GoesOnRequesting DEF Requesting
<1>6. CASE ~(index[c] < Len(Order(c))) /\ flags[c].autoSubmit
  <2>1. /\ place'[c] = "submit" /\ outcome'[c] = "none" /\ index'[c] = 1 /\ Of(c)' = Of(c)
    BY <1>1, <1>2, <1>6 DEF AfterBuildStarted, GoTo, Of, Order, Typed, BuildTypeOK
  <2>2. Before(c)' = {} BY <2>1 DEF Before
  <2>3. \A p \in Of(c) : build'[<<c, p>>] # "none" BY <1>1, <1>4, <1>6
  <2>4. \A p \in Platforms : told'[<<c, p>>] = "asked" BY <1>2 DEF Truthful, Requesting
  <2> QED BY <1>6, <2>1, <2>2, <2>3, <2>4 DEF Truthful, AllStarted, SeenTrue, Exits, Waiting, Requesting
<1>7. CASE ~(index[c] < Len(Order(c))) /\ ~flags[c].autoSubmit
  <2>1. Wait(c) BY <1>2, <1>7 DEF AfterBuildStarted
  <2>2. \A p \in Of(c) : build'[<<c, p>>] # "none" BY <1>1, <1>4, <1>7
  <2> QED BY <1>2, <1>7, <2>1, <2>2, Waits DEF Requesting
<1> QED BY <1>5, <1>6, <1>7

LEMMA SubmitSound ==
  ASSUME Typed, NEW c \in DOMAIN flags, Truthful(c), SubmitsFinished(c)', flags' = flags, Submit(c)
  PROVE  Truthful(c)'
<1>1. /\ c \in Invocations /\ P(c) \in Platforms /\ P(c) \in Of(c) /\ Job(c) = <<c, P(c)>>
      /\ \A p \in Platforms : <<c, p>> \in Jobs
      /\ Before(c) \subseteq Of(c) /\ Of(c) \subseteq Platforms
      /\ ~(index[c] < Len(Order(c))) => Of(c) = Before(c) \cup {P(c)}
  BY PlatformIs, OrderIs DEF Jobs, Typed, BuildTypeOK
<1>2. /\ place[c] = "submit" /\ Submitted(c) /\ AfterSubmissionStarted(c)
      /\ UNCHANGED <<told, build>> /\ outcome[c] = "none"
  BY DEF Submit, Truthful
<1>3. submission'[<<c, P(c)>>] = "active"
      /\ \A p \in Platforms : p # P(c) => submission'[<<c, p>>] = submission[<<c, p>>]
  BY <1>1, <1>2 DEF Submitted, Typed, BuildTypeOK
<1>4. /\ flags[c].autoSubmit /\ \A p \in Of(c) : build'[<<c, p>>] # "none"
      /\ \A p \in Before(c) : submission[<<c, p>>] # "none"
  BY <1>1, <1>2 DEF Truthful, AllStarted, Requesting
<1>5. \A p \in Before(c) \cup {P(c)} : submission'[<<c, p>>] # "none"
  BY <1>1, <1>3, <1>4
<1>6. CASE index[c] < Len(Order(c))
  <2>1. /\ place'[c] = "submit" /\ outcome'[c] = "none" /\ Before(c)' = Before(c) \cup {P(c)}
        /\ Of(c)' = Of(c)
    BY <1>1, <1>2, <1>6, NextPlatform DEF AfterSubmissionStarted, Of, Order
  <2>2. \A p \in Platforms : told'[<<c, p>>] = "asked" BY <1>2 DEF Truthful
  <2> QED BY <1>4, <1>5, <2>1, <2>2 DEF Truthful, AllStarted, SeenTrue, Exits, Waiting, Requesting
<1>7. CASE ~(index[c] < Len(Order(c)))
  <2>1. Wait(c) BY <1>2, <1>7 DEF AfterSubmissionStarted
  <2> QED BY <1>1, <1>2, <1>4, <1>5, <1>7, <2>1, Waits
<1> QED BY <1>6, <1>7

\* A query tells what is so, or that it does not know.
LEMMA AnswerSound ==
  ASSUME Typed, NEW c \in DOMAIN flags, Truthful(c), SubmitsFinished(c)', flags' = flags,
         NEW p \in Platforms, Answer(c, p) \/ QueryFails(c, p)
  PROVE  Truthful(c)'
<1>1. /\ c \in Invocations /\ \A q \in Platforms : <<c, q>> \in Jobs
      /\ Of(c)' = Of(c) /\ Of(c) \subseteq Platforms
  BY PlatformIs, OrderIs DEF Jobs, Of, Order, Typed, BuildTypeOK
<1>2. /\ Waiting(c) /\ UNCHANGED <<index, requests, build, submission>>
  BY DEF Answer, QueryFails, service
<1>3. CASE place' = place /\ outcome' = outcome
  <2>1. \E w : /\ told' = [told EXCEPT ![<<c, p>>] = w]
               /\ \/ w = "active"
                  \/ place[c] = "builds" /\ w = build[<<c, p>>]
                  \/ place[c] # "builds" /\ w = submission[<<c, p>>]
    <3>1. CASE Answer(c, p) BY <3>1 DEF Answer
    <3>2. CASE QueryFails(c, p)
      <4>1. place'[c] # "over" BY <1>2, <1>3 DEF Waiting
      <4> QED BY <1>1, <3>2, <4>1 DEF QueryFails, End, GoTo, Typed, BuildTypeOK
    <3> QED BY <3>1, <3>2
  <2>2. SeenTrue(c)'
    <3>1. \A q \in Platforms : q # p => told'[<<c, q>>] = told[<<c, q>>]
      BY <1>1, <2>1 DEF Typed, BuildTypeOK
    <3>2. told'[<<c, p>>] \in Ended =>
            /\ place[c] = "builds" => build[<<c, p>>] = told'[<<c, p>>]
            /\ place[c] = "submissions" => submission[<<c, p>>] = told'[<<c, p>>]
      BY <1>1, <2>1 DEF Ended, Typed, BuildTypeOK
    <3> QED BY <1>1, <1>2, <1>3, <3>1, <3>2 DEF SeenTrue, Truthful
  <2>3. Before(c)' = Before(c) BY <1>2 DEF Before, Order
  <2>4. AllStarted(c)' BY <1>1, <1>2, <1>3, <2>3 DEF AllStarted, Truthful
  <2>5. Exits(c)' BY <1>1, <1>2, <1>3 DEF Exits, Truthful
  <2> QED BY <1>2, <1>3, <2>2, <2>4, <2>5 DEF Truthful, Waiting, Requesting
<1>4. CASE ~(place' = place /\ outcome' = outcome)
  <2>1. End(c, "threw") BY <1>4 DEF Answer, QueryFails
  <2>2. place'[c] = "over" /\ outcome'[c] = "threw" BY <1>1, <2>1 DEF End, GoTo, Typed, BuildTypeOK
  <2> QED BY <2>2, CutShort
<1> QED BY <1>3, <1>4

LEMMA JudgeBuildsSound ==
  ASSUME Typed, NEW c \in DOMAIN flags, Truthful(c), SubmitsFinished(c)', flags' = flags, JudgeBuilds(c)
  PROVE  Truthful(c)'
<1>1. /\ c \in Invocations /\ \A q \in Platforms : <<c, q>> \in Jobs
      /\ Of(c)' = Of(c) /\ Of(c) \subseteq Platforms
  BY PlatformIs, OrderIs DEF Jobs, Of, Order, Typed, BuildTypeOK
<1>2. /\ place[c] = "builds" /\ UNCHANGED <<index, requests, build, submission>>
      /\ outcome[c] = "none" /\ flags[c].wait
      /\ \A p \in Of(c) : build[<<c, p>>] # "none"
      /\ flags[c].autoSubmit => \A p \in Of(c) : submission[<<c, p>>] # "none"
      /\ \A p \in Of(c) : told[<<c, p>>] \in Ended => build[<<c, p>>] = told[<<c, p>>]
  BY DEF JudgeBuilds, service, Truthful, Waiting, AllStarted, Requesting, SeenTrue
<1>3. CASE Round(c) /\ outcome' = outcome /\ place'[c] \in {"builds", "submissions"}
           /\ (place'[c] = "submissions" => flags[c].autoSubmit)
  <2>1. \A p \in Platforms : told'[<<c, p>>] = "asked" BY <1>1, <1>3 DEF Round
  <2> QED BY <1>1, <1>2, <1>3, <2>1 DEF Truthful, AllStarted, SeenTrue, Exits, Waiting, Requesting, Ended
<1>4. CASE place'[c] = "over" /\ outcome'[c] = "threw"
  BY <1>4, CutShort
<1>5. CASE /\ BuildsSettled(c) /\ (All(c, {"errored", "canceled"}) \/ ~flags[c].autoSubmit)
           /\ place'[c] = "over" /\ outcome'[c] = ExitIfSome(c, {"errored"})
  <2>1. \A p \in Of(c) : build[<<c, p>>] = told[<<c, p>>] /\ told[<<c, p>>] \in Ended
    BY <1>2, <1>5 DEF BuildsSettled, All
  <2>2. CASE \E p \in Of(c) : told[<<c, p>>] \in {"errored"}
    <3>1. outcome'[c] = "exit1" BY <1>5, <2>2 DEF ExitIfSome
    <3>2. Exits(c)' BY <1>1, <1>2, <2>1, <2>2, <3>1 DEF Exits
    <3> QED BY <1>5, <3>1, <3>2 DEF Truthful, AllStarted, SeenTrue, Waiting, Requesting
  <2>3. CASE ~\E p \in Of(c) : told[<<c, p>>] \in {"errored"}
    <3>1. outcome'[c] = "ok" BY <1>5, <2>3 DEF ExitIfSome
    <3>2. \A p \in Of(c) : build[<<c, p>>] \in {"finished", "canceled"}
      BY <2>1, <2>3 DEF Ended
    <3>3. flags[c].autoSubmit => \A p \in Of(c) : build[<<c, p>>] = "canceled"
      BY <1>5, <2>1, <3>2 DEF All
    <3>4. Exits(c)' BY <1>1, <1>2, <3>1, <3>2, <3>3 DEF Exits
    <3> QED BY <1>5, <3>1, <3>4 DEF Truthful, AllStarted, SeenTrue, Waiting, Requesting
  <2> QED BY <2>2, <2>3
<1> QED BY <1>1, <1>2, <1>3, <1>4, <1>5 DEF JudgeBuilds, End, GoTo, Typed, BuildTypeOK

LEMMA JudgeSubmissionsSound ==
  ASSUME Typed, NEW c \in DOMAIN flags, Truthful(c), SubmitsFinished(c)', flags' = flags,
         JudgeSubmissions(c)
  PROVE  Truthful(c)'
<1>1. /\ c \in Invocations /\ \A q \in Platforms : <<c, q>> \in Jobs
      /\ Of(c)' = Of(c) /\ Of(c) \subseteq Platforms
  BY PlatformIs, OrderIs DEF Jobs, Of, Order, Typed, BuildTypeOK
<1>2. /\ place[c] = "submissions" /\ UNCHANGED <<index, requests, build, submission>>
      /\ outcome[c] = "none" /\ flags[c].wait /\ flags[c].autoSubmit
      /\ \A p \in Of(c) : build[<<c, p>>] # "none" /\ submission[<<c, p>>] # "none"
      /\ \A p \in Of(c) : told[<<c, p>>] \in Ended => submission[<<c, p>>] = told[<<c, p>>]
      /\ \A p \in Of(c) : submission[<<c, p>>] = "finished" => build[<<c, p>>] = "finished"
  BY <1>1 DEF JudgeSubmissions, service, Truthful, Waiting, AllStarted, Requesting, SeenTrue, SubmitsFinished
<1>3. CASE Round(c) /\ place' = place /\ outcome' = outcome
  <2>1. \A p \in Platforms : told'[<<c, p>>] = "asked" BY <1>1, <1>3 DEF Round
  <2> QED BY <1>1, <1>2, <1>3, <2>1 DEF Truthful, AllStarted, SeenTrue, Exits, Waiting, Requesting, Ended
<1>4. CASE /\ All(c, Ended) /\ place'[c] = "over"
           /\ outcome'[c] = ExitIfSome(c, Ended \ {"finished"})
  <2>1. \A p \in Of(c) : submission[<<c, p>>] = told[<<c, p>>] /\ told[<<c, p>>] \in Ended
    BY <1>2, <1>4 DEF All
  <2>2. CASE \E p \in Of(c) : told[<<c, p>>] \in Ended \ {"finished"}
    <3>1. outcome'[c] = "exit1" BY <1>4, <2>2 DEF ExitIfSome
    <3>2. \E p \in Of(c) : submission[<<c, p>>] \in {"errored", "canceled"}
      BY <2>1, <2>2 DEF Ended
    <3>3. Exits(c)' BY <1>1, <1>2, <3>1, <3>2 DEF Exits
    <3> QED BY <1>4, <3>1, <3>3 DEF Truthful, AllStarted, SeenTrue, Waiting, Requesting
  <2>3. CASE ~\E p \in Of(c) : told[<<c, p>>] \in Ended \ {"finished"}
    <3>1. outcome'[c] = "ok" BY <1>4, <2>3 DEF ExitIfSome
    <3>2. \A p \in Of(c) : submission[<<c, p>>] = "finished" /\ build[<<c, p>>] = "finished"
      BY <1>2, <2>1, <2>3
    <3>3. Exits(c)' BY <1>1, <1>2, <3>1, <3>2 DEF Exits
    <3> QED BY <1>4, <3>1, <3>3 DEF Truthful, AllStarted, SeenTrue, Waiting, Requesting
  <2> QED BY <2>2, <2>3
<1> QED BY <1>1, <1>2, <1>3, <1>4 DEF JudgeSubmissions, End, GoTo, Typed, BuildTypeOK

\* Reading and writing a version starts nothing.
LEMMA VersionSound ==
  ASSUME Typed, NEW c \in DOMAIN flags, Truthful(c), SubmitsFinished(c)', flags' = flags,
         ReadVersion(c) \/ WriteVersion(c) \/ WriteLost(c)
  PROVE  Truthful(c)'
<1>1. c \in Invocations BY PlatformIs
<1>2. /\ place[c] \in Requesting /\ UNCHANGED <<index, told, build, submission>>
      /\ \/ place'[c] = "over" /\ outcome'[c] = "threw"
         \/ place'[c] \in Requesting /\ outcome' = outcome
  <2>1. CASE ReadVersion(c)
    BY <1>1, <2>1 DEF ReadVersion, End, GoTo, service, Requesting, Typed, BuildTypeOK
  <2>2. CASE WriteVersion(c)
    BY <1>1, <2>2 DEF WriteVersion, GoTo, Requesting, Typed, BuildTypeOK
  <2>3. CASE WriteLost(c)
    BY <1>1, <2>3 DEF WriteLost, End, GoTo, Requesting, Typed, BuildTypeOK
  <2> QED BY <2>1, <2>2, <2>3
<1>3. Before(c)' = Before(c) BY <1>2 DEF Before, Order
<1>4. \A p \in Before(c)' : build'[<<c, p>>] # "none"
  BY <1>2, <1>3 DEF Truthful, AllStarted
<1> QED BY <1>2, <1>4, CutShort, GoesOnRequesting

LEMMA MoveSound ==
  ASSUME Typed, VersionInv, OutcomeInv, NEW c \in Invocations, Moves(c)
  PROVE  OutcomeInv'
<1>1. c \in DOMAIN flags /\ flags' = flags /\ \A d \in Invocations \ {c} : Untouched(d)
  BY MovesOne DEF inputs
<1>2. \A d \in DOMAIN flags : d \in Invocations
  BY PlatformIs
<1>3. Truthful(c) /\ SubmitsFinished(c)'
  BY <1>1, MoveSubmits DEF OutcomeInv, VersionInv
<1>4. Truthful(c)'
  <2>1. CASE ReadVersion(c) \/ WriteVersion(c) \/ WriteLost(c)
    BY <1>1, <1>3, <2>1, VersionSound
  <2>2. CASE SendBuild(c) BY <1>1, <1>3, <2>2, SendSound
  <2>3. CASE Submit(c) BY <1>1, <1>3, <2>3, SubmitSound
  <2>4. CASE SendLost(c) \/ SubmitLost(c) \/ Throw(c) \/ Interrupt(c)
    <3>1. place'[c] = "over" /\ outcome'[c] \in {"threw", "killed"}
      BY <2>4 DEF SendLost, SubmitLost, Throw, Interrupt, End, GoTo, Typed, BuildTypeOK
    <3> QED BY <1>3, <3>1, CutShort
  <2>5. CASE JudgeBuilds(c) BY <1>1, <1>3, <2>5, JudgeBuildsSound
  <2>6. CASE JudgeSubmissions(c) BY <1>1, <1>3, <2>6, JudgeSubmissionsSound
  <2>7. CASE \E p \in Platforms : Answer(c, p) \/ QueryFails(c, p)
    BY <1>1, <1>3, <2>7, AnswerSound
  <2> QED BY <2>1, <2>2, <2>3, <2>4, <2>5, <2>6, <2>7 DEF Moves, Command
<1>5. ASSUME NEW d \in DOMAIN flags, d # c PROVE Truthful(d)'
  BY <1>1, <1>2, <1>5, UntouchedSound DEF OutcomeInv
<1> QED BY <1>1, <1>4, <1>5 DEF OutcomeInv

LEMMA EndsSound ==
  ASSUME Typed, VersionInv, OutcomeInv, NEW j \in Jobs, ServerEnds(j)
  PROVE  OutcomeInv'
<1>1. /\ UNCHANGED <<flags, place, index, outcome, told, requests>>
      /\ place[j[1]] # "over" /\ flags[j[1]].wait
      /\ \A i \in Jobs \ {j} : build'[i] = build[i] /\ submission'[i] = submission[i]
      /\ \/ build[j] = "active" /\ build'[j] \in Ended /\ submission' = submission
         \/ /\ submission[j] = "active" /\ submission'[j] \in Ended /\ build' = build
            /\ submission'[j] = "finished" => build[j] = "finished"
  BY EndsOne DEF inputs, command
<1> SUFFICES ASSUME NEW c \in DOMAIN flags PROVE Truthful(c)'
  BY <1>1 DEF OutcomeInv
<1>2. /\ c \in Invocations /\ \A q \in Platforms : <<c, q>> \in Jobs
      /\ Of(c)' = Of(c) /\ Of(c) \subseteq Platforms /\ Before(c)' = Before(c)
      /\ Before(c) \subseteq Of(c)
  <2>1. Of(c)' = Of(c) /\ Before(c)' = Before(c) BY <1>1 DEF Of, Before, Order
  <2> QED BY <2>1, PlatformIs, OrderIs DEF Jobs, Typed, BuildTypeOK
<1>3. Truthful(c) BY DEF OutcomeInv
<1>4. ASSUME NEW p \in Platforms, <<c, p>> # j
      PROVE  build'[<<c, p>>] = build[<<c, p>>] /\ submission'[<<c, p>>] = submission[<<c, p>>]
  BY <1>1, <1>2, <1>4
<1>5. ASSUME NEW p \in Platforms
      PROVE  /\ build[<<c, p>>] # "none" => build'[<<c, p>>] # "none"
             /\ submission[<<c, p>>] # "none" => submission'[<<c, p>>] # "none"
             /\ submission'[<<c, p>>] # "none" => submission[<<c, p>>] # "none"
             /\ build[<<c, p>>] \in Ended => build'[<<c, p>>] = build[<<c, p>>]
             /\ submission[<<c, p>>] \in Ended => submission'[<<c, p>>] = submission[<<c, p>>]
  BY <1>1, <1>4 DEF Ended
<1>6. SubmitsFinished(c)'
  <2> SUFFICES ASSUME NEW p \in Platforms
               PROVE  submission'[<<c, p>>] = "finished" => build'[<<c, p>>] = "finished"
    BY <1>1, <1>3, <1>5 DEF SubmitsFinished, Truthful
  <2>1. CASE <<c, p>> # j BY <1>3, <1>4, <2>1 DEF SubmitsFinished, Truthful
  <2>2. CASE <<c, p>> = j BY <1>1, <1>3, <2>2 DEF SubmitsFinished, Truthful
  <2> QED BY <2>1, <2>2
<1>7. AllStarted(c)'
  BY <1>1, <1>2, <1>3, <1>5 DEF AllStarted, Truthful
<1>8. SeenTrue(c)'
  BY <1>1, <1>2, <1>3, <1>5 DEF SeenTrue, Truthful
<1>9. Exits(c)'
  <2>1. CASE c = j[1]
    BY <1>1, <1>3, <2>1 DEF Exits, Truthful
  <2>2. CASE c # j[1]
    <3>1. \A p \in Platforms : <<c, p>> # j BY <2>2
    <3> QED BY <1>1, <1>2, <1>3, <1>4, <3>1 DEF Exits, Truthful
  <2> QED BY <2>1, <2>2
<1> QED BY <1>1, <1>3, <1>6, <1>7, <1>8, <1>9 DEF Truthful, Waiting

-----------------------------------------------------------------------------

LEMMA InitInv == BuildInit => CommandInv
BY InitTyped, InitVersion, InitSound DEF CommandInv

LEMMA NextInv == CommandInv /\ [BuildNext]_buildVars => CommandInv'
<1> SUFFICES ASSUME CommandInv, [BuildNext]_buildVars PROVE CommandInv'
  OBVIOUS
<1>1. ASSUME NEW c \in Invocations, Moves(c) PROVE CommandInv'
  BY <1>1, MoveTyped, MoveVersion, MoveSound DEF CommandInv
<1>2. ASSUME NEW j \in Jobs, ServerEnds(j) PROVE CommandInv'
  BY <1>2, EndsOne, EndsVersion, EndsSound DEF CommandInv
<1>3. CASE UNCHANGED buildVars
  <2>1. Typed'
    BY <1>3 DEF CommandInv, Typed, BuildTypeOK, buildVars, inputs, command, service, history, Limited, Order
  <2>2. VersionInv'
    BY <1>3 DEF CommandInv, VersionInv, RequestedOnce, Newer, OwnersDiffer, Increments, Owns, Before,
       Of, P, Order, buildVars, inputs, command, service, history
  <2>3. OutcomeInv'
    <3>1. flags' = flags BY <1>3 DEF buildVars, inputs
    <3>2. ASSUME NEW d \in DOMAIN flags PROVE Truthful(d)'
      <4>1. Untouched(d) BY <1>3 DEF Untouched, buildVars, command, service, history
      <4> QED BY <3>1, <4>1, UntouchedSound DEF CommandInv, OutcomeInv
    <3> QED BY <3>1, <3>2 DEF OutcomeInv
  <2> QED BY <2>1, <2>2, <2>3 DEF CommandInv
<1> QED BY <1>1, <1>2, <1>3 DEF BuildNext, Moves

LEMMA AlwaysInv == BuildSpec => []CommandInv
BY InitInv, NextInv, PTL DEF BuildSpec

\* Every variable keeps its shape: no query tells of a build or a submission that
\* was not started, and no Android version passes the limit unless the project or
\* the server began with such a one (getNextVersionCode throws at the limit).
THEOREM CommandTypeCorrect == BuildSpec => []BuildTypeOK
<1>1. CommandInv => BuildTypeOK BY DEF CommandInv, Typed
<1> QED BY <1>1, AlwaysInv, PTL

\* No platform of a command is requested twice, and no two builds with
\* autoIncrement have one version of a platform whose version nobody wrote over
\* another than the one read, whatever requests and responses are lost
\* (resolveRemoteVersionCodeAsync, createAppVersionAsync, noRetry).
THEOREM VersionsAreDistinct == BuildSpec => []VersionsDistinct
<1>1. ASSUME CommandInv PROVE VersionsDistinct
  <2>1. ASSUME NEW j \in Jobs PROVE requests[j] <= 1
    <3>1. PICK c \in Invocations, p \in Platforms : j = <<c, p>> BY DEF Jobs
    <3>2. CASE c \in DOMAIN flags
      BY <1>1, <3>1, <3>2 DEF CommandInv, VersionInv, RequestedOnce
    <3>3. CASE c \notin DOMAIN flags
      BY <1>1, <3>1, <3>3, 0 <= 1 DEF CommandInv, Typed
    <3> QED BY <3>2, <3>3
  <2>2. \A c \in DOMAIN flags : c \in Invocations
    BY <1>1, PlatformIs DEF CommandInv
  <2> QED BY <1>1, <2>1, <2>2 DEF VersionsDistinct, CommandInv, VersionInv, OwnersDiffer, Increments, Owns
<1> QED BY <1>1, AlwaysInv, PTL

\* The exit code tells how the builds and the submissions went: after success all
\* that was asked for is started and, when it was waited for, has not failed;
\* exit code 1 tells of a failure there is (printBuildResultsAsync,
\* exitWithNonZeroCodeIfSomeBuildsFailed, exitWithNonZeroCodeIfSomeSubmissionsDidntFinish).
THEOREM ExitIsTrue == BuildSpec => []ExitTellsOutcome
<1>1. ASSUME CommandInv PROVE ExitTellsOutcome
  <2> SUFFICES ASSUME NEW c \in DOMAIN flags
               PROVE  LET builds == {build[<<c, p>>] : p \in Of(c)}
                          submissions == {submission[<<c, p>>] : p \in Of(c)} IN
                      /\ outcome[c] = "ok" =>
                           /\ "none" \notin builds /\ (flags[c].autoSubmit => "none" \notin submissions)
                           /\ flags[c].wait =>
                                /\ builds \cap {"active", "errored"} = {}
                                /\ flags[c].autoSubmit =>
                                     submissions = {"finished"} \/ builds = {"canceled"}
                      /\ outcome[c] = "exit1" =>
                           "errored" \in builds \/ submissions \cap {"errored", "canceled"} # {}
    BY DEF ExitTellsOutcome
  <2>1. Exits(c) BY <1>1 DEF CommandInv, OutcomeInv, Truthful
  <2>2. Of(c) # {} BY <1>1, OrderIs DEF CommandInv, Typed, BuildTypeOK
  <2> DEFINE builds == {build[<<c, p>>] : p \in Of(c)}
             submissions == {submission[<<c, p>>] : p \in Of(c)}
  <2>3. outcome[c] = "ok" =>
          /\ "none" \notin builds /\ (flags[c].autoSubmit => "none" \notin submissions)
          /\ flags[c].wait => builds \cap {"active", "errored"} = {}
    BY <2>1 DEF Exits
  <2>4. outcome[c] = "ok" /\ flags[c].wait /\ flags[c].autoSubmit =>
          submissions = {"finished"} \/ builds = {"canceled"}
    <3>1. (\A p \in Of(c) : submission[<<c, p>>] = "finished") => submissions = {"finished"}
      BY <2>2
    <3>2. (\A p \in Of(c) : build[<<c, p>>] = "canceled") => builds = {"canceled"}
      BY <2>2
    <3> QED BY <2>1, <3>1, <3>2 DEF Exits
  <2>5. outcome[c] = "exit1" => "errored" \in builds \/ submissions \cap {"errored", "canceled"} # {}
    BY <2>1 DEF Exits
  <2> QED BY <2>3, <2>4, <2>5
<1> QED BY <1>1, AlwaysInv, PTL

-----------------------------------------------------------------------------
(* A command ends: only its rounds of queries repeat.                       *)

\* Where a command stands: the part, and the step of a platform in the first.
Part(w) ==
  CASE w \in Requesting -> 1 [] w = "submit" -> 2 [] w = "builds" -> 3
    [] w = "submissions" -> 4 [] OTHER -> 5
StepOf(w) == CASE w = "read" -> 1 [] w = "write" -> 2 [] OTHER -> 3

Mine(c)      == [p \in Platforms |-> told[<<c, p>>]]
Open(c)      == {p \in Of(c) : told[<<c, p>>] = "asked"}
Standing(c)  == <<place[c], index[c], tries[c], Mine(c)>>

\* It gets on to a later part; or to the next platform, the next step of one, or
\* the next of the few attempts at it; or one more query of a round is answered;
\* or a round begins after one that told of something not at its end.
CommandForward(c) ==
  \/ Part(place'[c]) > Part(place[c])
  \/ Part(place'[c]) = Part(place[c]) /\ index'[c] > index[c]
  \/ index'[c] = index[c] /\ StepOf(place'[c]) > StepOf(place[c])
                         /\ Part(place'[c]) = Part(place[c])
  \/ /\ place[c] = "write" /\ place'[c] = "write" /\ index'[c] = index[c]
     /\ tries'[c] = tries[c] + 1 /\ tries'[c] < MaxAttempts
  \/ /\ Waiting(c) /\ place'[c] = place[c] /\ index'[c] = index[c]
     /\ IF Open(c) = {} THEN ~All(c, Ended) /\ Open(c)' = Of(c)
                        ELSE \E p \in Open(c) : Open(c)' = Open(c) \ {p}

CommandsForward == \A c \in Invocations : [CommandForward(c)]_(Standing(c))

\* A step of one command gets that one on.
LEMMA MoveForward ==
  ASSUME CommandInv, NEW c \in Invocations, Moves(c)
  PROVE  CommandForward(c)
<1>1. /\ c \in DOMAIN flags /\ place \in [Invocations -> Places] /\ index[c] \in 1..2
      /\ index \in [Invocations -> 1..2] /\ tries \in [Invocations -> 0..MaxAttempts - 1]
      /\ told \in [Jobs -> {"asked", "active"} \cup Ended] /\ flags' = flags
      /\ Of(c) \subseteq Platforms /\ Of(c) # {} /\ Of(c)' = Of(c)
  <2>1. Typed /\ flags \in Options BY DEF CommandInv, Typed, BuildTypeOK
  <2>2. c \in DOMAIN flags /\ flags' = flags BY <2>1, MovesOne DEF inputs
  <2>3. Of(c) \subseteq Platforms /\ Of(c) # {} BY <2>1, <2>2, OrderIs
  <2>4. Of(c)' = Of(c) BY <2>2 DEF Of, Order
  <2>5. /\ place \in [Invocations -> Places] /\ index \in [Invocations -> 1..2]
        /\ tries \in [Invocations -> 0..MaxAttempts - 1]
        /\ told \in [Jobs -> {"asked", "active"} \cup Ended]
    BY <2>1 DEF Typed, BuildTypeOK, Places
  <2>6. index[c] \in 1..2 BY <2>5
  <2> QED BY <2>2, <2>3, <2>4, <2>5, <2>6
<1>2. ASSUME NEW how, End(c, how), place[c] # "over" PROVE CommandForward(c)
  <2>1. place'[c] = "over" BY <1>1, <1>2 DEF End, GoTo
  <2>2. Part(place[c]) < 5 /\ Part(place'[c]) = 5
    BY <1>1, <1>2, <2>1 DEF Part, Requesting, Places
  <2>3. Part(place[c]) \in Nat BY DEF Part
  <2> QED BY <2>2, <2>3 DEF CommandForward
<1>3. CASE Throw(c) \/ Interrupt(c) \/ SendLost(c) \/ SubmitLost(c)
  BY <1>2, <1>3 DEF Throw, Interrupt, SendLost, SubmitLost
<1>4. CASE ReadVersion(c)
  <2>1. place[c] = "read" /\ index'[c] = index[c] BY <1>4 DEF ReadVersion
  <2>2. CASE End(c, "threw") BY <1>2, <2>1, <2>2
  <2>3. CASE \E w \in {"write", "send"} : GoTo(c, w)
    <3>1. place'[c] \in {"write", "send"} BY <1>1, <2>3 DEF GoTo
    <3> QED BY <2>1, <3>1 DEF CommandForward, Part, StepOf, Requesting
  <2> QED BY <1>4, <2>2, <2>3 DEF ReadVersion
<1>5. CASE WriteVersion(c)
  <2>1. place[c] = "write" /\ place'[c] = "send" /\ index'[c] = index[c]
    BY <1>1, <1>5 DEF WriteVersion, GoTo
  <2> QED BY <2>1 DEF CommandForward, Part, StepOf, Requesting
<1>6. CASE WriteLost(c)
  <2>1. place[c] = "write" /\ index'[c] = index[c] BY <1>6 DEF WriteLost
  <2>2. CASE End(c, "threw") BY <1>2, <2>1, <2>2
  <2>3. CASE /\ tries[c] + 1 < MaxAttempts /\ tries' = [tries EXCEPT ![c] = @ + 1]
             /\ place' = place
    <3>1. tries'[c] = tries[c] + 1 BY <1>1, <2>3
    <3> QED BY <2>1, <2>3, <3>1 DEF CommandForward
  <2> QED BY <1>6, <2>2, <2>3 DEF WriteLost
<1>7. ASSUME Wait(c), place[c] \in {"send", "submit"} PROVE CommandForward(c)
  <2>1. CASE flags[c].wait
    <3>1. place'[c] = "builds" BY <1>1, <1>7, <2>1 DEF Wait, GoTo
    <3> QED BY <1>7, <3>1 DEF CommandForward, Part, Requesting
  <2>2. CASE ~flags[c].wait
    <3>1. End(c, "ok") BY <1>7, <2>2 DEF Wait
    <3> QED BY <1>2, <1>7, <3>1
  <2> QED BY <2>1, <2>2
<1>8. CASE SendBuild(c)
  <2>1. place[c] = "send" /\ AfterBuildStarted(c) BY <1>8 DEF SendBuild
  <2>2. CASE index[c] < Len(Order(c))
    <3>1. place'[c] = "read" /\ index'[c] = index[c] + 1
      BY <1>1, <2>1, <2>2 DEF AfterBuildStarted, GoTo
    <3> QED BY <1>1, <2>1, <3>1 DEF CommandForward, Part, Requesting
  <2>3. CASE ~(index[c] < Len(Order(c))) /\ flags[c].autoSubmit
    <3>1. place'[c] = "submit" BY <1>1, <2>1, <2>3 DEF AfterBuildStarted, GoTo
    <3> QED BY <2>1, <3>1 DEF CommandForward, Part, Requesting
  <2>4. CASE ~(index[c] < Len(Order(c))) /\ ~flags[c].autoSubmit
    <3>1. Wait(c) BY <2>1, <2>4 DEF AfterBuildStarted
    <3> QED BY <1>7, <2>1, <3>1
  <2> QED BY <2>2, <2>3, <2>4
<1>9. CASE Submit(c)
  <2>1. place[c] = "submit" /\ AfterSubmissionStarted(c) BY <1>9 DEF Submit
  <2>2. CASE index[c] < Len(Order(c))
    <3>1. place'[c] = place[c] /\ index'[c] = index[c] + 1
      BY <1>1, <2>1, <2>2 DEF AfterSubmissionStarted
    <3> QED BY <1>1, <3>1 DEF CommandForward
  <2>3. CASE ~(index[c] < Len(Order(c)))
    <3>1. Wait(c) BY <2>1, <2>3 DEF AfterSubmissionStarted
    <3> QED BY <1>7, <2>1, <3>1
  <2> QED BY <2>2, <2>3
<1>10. ASSUME Round(c), Answered(c), ~All(c, Ended), Waiting(c), UNCHANGED <<place, index>>
       PROVE  CommandForward(c)
  <2>1. \A p \in Of(c) : told'[<<c, p>>] = "asked"
    <3> SUFFICES ASSUME NEW p \in Of(c) PROVE told'[<<c, p>>] = "asked"
      OBVIOUS
    <3> DEFINE j == <<c, p>>
    <3>1. j \in Jobs /\ j[1] = c BY <1>1 DEF Jobs
    <3> HIDE DEF j
    <3>2. told'[j] = "asked" BY <1>10, <3>1 DEF Round
    <3> QED BY <3>2 DEF j
  <2>2. Open(c) = {} BY <1>10 DEF Open, Answered
  <2>3. Open(c)' = Of(c) BY <1>1, <2>1 DEF Open
  <2> QED BY <1>10, <2>2, <2>3 DEF CommandForward
<1>11. CASE JudgeBuilds(c)
  <2>1. place[c] = "builds" /\ Answered(c) /\ index' = index BY <1>11 DEF JudgeBuilds
  <2>2. CASE ~BuildsSettled(c) /\ Round(c) /\ place' = place
    BY <1>10, <2>1, <2>2 DEF BuildsSettled, Waiting
  <2>3. CASE \E how : End(c, how) BY <1>2, <2>1, <2>3
  <2>4. CASE GoTo(c, "submissions")
    <3>1. place'[c] = "submissions" BY <1>1, <2>4 DEF GoTo
    <3> QED BY <2>1, <3>1 DEF CommandForward, Part, Requesting
  <2> QED BY <1>11, <2>2, <2>3, <2>4 DEF JudgeBuilds
<1>12. CASE JudgeSubmissions(c)
  <2>1. place[c] = "submissions" /\ Answered(c) /\ index' = index
    BY <1>12 DEF JudgeSubmissions
  <2>2. CASE All(c, Ended) BY <1>2, <1>12, <2>1, <2>2 DEF JudgeSubmissions
  <2>3. CASE ~All(c, Ended)
    <3>1. Round(c) /\ place' = place BY <1>12, <2>3 DEF JudgeSubmissions
    <3> QED BY <1>10, <2>1, <2>3, <3>1 DEF Waiting
  <2> QED BY <2>2, <2>3
<1>13. ASSUME NEW p \in Platforms, NEW w, Waiting(c), Unanswered(c, p), w # "asked",
              told' = [told EXCEPT ![<<c, p>>] = w], UNCHANGED <<place, index>>
       PROVE  CommandForward(c)
  <2>1. <<c, p>> \in Jobs /\ p \in Open(c) BY <1>13 DEF Jobs, Unanswered, Open
  <2>2. ASSUME NEW q \in Of(c)
        PROVE  told'[<<c, q>>] = IF q = p THEN w ELSE told[<<c, q>>]
    BY <1>1, <1>13, <2>1 DEF Jobs
  <2>3. Open(c)' = Open(c) \ {p} BY <1>1, <1>13, <2>2 DEF Open
  <2> QED BY <1>13, <2>1, <2>3 DEF CommandForward
<1>14. ASSUME NEW p \in Platforms, Answer(c, p) PROVE CommandForward(c)
  <2> DEFINE w == IF place[c] = "builds" THEN build[<<c, p>>] ELSE submission[<<c, p>>]
  <2>1. /\ Waiting(c) /\ Unanswered(c, p) /\ told' = [told EXCEPT ![<<c, p>>] = w]
        /\ UNCHANGED <<place, index>>
    BY <1>14 DEF Answer
  <2>2. w # "asked"
    <3>1. <<c, p>> \in Jobs BY DEF Jobs
    <3> QED BY <3>1 DEF CommandInv, Typed, BuildTypeOK, Ended
  <2> HIDE DEF w
  <2> QED BY <1>13, <2>1, <2>2
<1>15. ASSUME NEW p \in Platforms, QueryFails(c, p) PROVE CommandForward(c)
  <2>1. Waiting(c) /\ Unanswered(c, p) /\ index' = index BY <1>15 DEF QueryFails
  <2>2. CASE told' = [told EXCEPT ![<<c, p>>] = "active"] /\ place' = place
    BY <1>13, <2>1, <2>2
  <2>3. CASE End(c, "threw") BY <1>2, <2>1, <2>3 DEF Waiting
  <2> QED BY <1>15, <2>2, <2>3 DEF QueryFails
<1> QED
  BY <1>3, <1>4, <1>5, <1>6, <1>8, <1>9, <1>11, <1>12, <1>14, <1>15 DEF Moves, Command

\* The other commands, and what ends on the server, leave a command where it is.
LEMMA AllForward == CommandInv /\ [BuildNext]_buildVars => [CommandsForward]_buildVars
<1> SUFFICES ASSUME CommandInv, BuildNext, NEW c \in Invocations
             PROVE  CommandForward(c) \/ UNCHANGED Standing(c)
  BY DEF CommandsForward
<1>1. ASSUME NEW d \in Invocations, Moves(d) PROVE CommandForward(c) \/ UNCHANGED Standing(c)
  <2>1. CASE d = c BY <1>1, <2>1, MoveForward
  <2>2. CASE d # c
    <3>1. Untouched(c) BY <1>1, <2>2, MovesOne DEF CommandInv
    <3>2. Mine(c)' = Mine(c) BY <3>1 DEF Untouched, Mine
    <3> QED BY <3>1, <3>2 DEF Untouched, Standing
  <2> QED BY <2>1, <2>2
<1>2. ASSUME NEW j \in Jobs, ServerEnds(j) PROVE UNCHANGED Standing(c)
  <2>1. UNCHANGED command BY <1>2, EndsOne DEF CommandInv
  <2> QED BY <2>1 DEF command, Standing, Mine
<1> QED BY <1>1, <1>2 DEF BuildNext, Moves

\* No command goes back: it comes to each platform once, sends a request a bounded
\* number of times and waits for builds before submissions, whatever fails.  Only
\* the rounds of queries repeat, each bounded by the platforms it asks for, and
\* none begins but after an answer that is not an end (runBuildAndSubmitAsync).
THEOREM OnlyQueriesRepeat == BuildSpec => [][CommandsForward]_buildVars
<1> QED BY AlwaysInv, AllForward, PTL DEF BuildSpec

=============================================================================
