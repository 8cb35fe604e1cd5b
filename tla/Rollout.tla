------------------------------- MODULE Rollout -------------------------------
(***************************************************************************)
(* The branch mapping of one update channel and the commands that replace    *)
(* it: eas channel:rollout with its actions create, edit and end             *)
(* (eas-cli/src/rollout/actions) and eas channel:edit, here "point".         *)
(*                                                                          *)
(* A command reads the channel, asks its questions, and writes a whole new   *)
(* mapping; the server keeps no version of it and takes every write.  Each   *)
(* operator runs one command at a time, and a step of theirs runs from one   *)
(* request or question to the next.  The server, its update groups and who   *)
(* publishes them are external.                                             *)
(***************************************************************************)
EXTENDS Naturals, Sequences

CONSTANTS
  Operators,   \* the people and CI jobs that run commands
  Branches,
  Runtimes,
  Percents,    \* the percentages they enter
  MaxUpdates,  \* bound: updates published beside the commands
  None

ASSUME RolloutAssumption ==
  /\ Percents \subseteq Nat
  /\ MaxUpdates \in Nat
  /\ None \notin Branches \cup Runtimes \cup {"create", "edit", "end", "point"}

VARIABLES
  mapping,    \* UpdateChannel.branchMapping
  newest,     \* newest[b][r]: content of the newest group of runtime r on b
  top,        \* top[b]: runtime of the newest group on b
  updates,    \* how many contents were published
  pc,
  cmd,
  info,       \* the mapping of this.channelInfo
  seen,       \* the mapping the new one is made from
  group,      \* rolledOutUpdateGroup
  next,       \* the mapping to write
  overtaken   \* history: someone published over the republished group

server == <<mapping, newest, top, updates>>
vars   == <<server, pc, cmd, info, seen, group, next, overtaken>>

-----------------------------------------------------------------------------
(* Branch mappings: a sequence of branches, each with the logic that admits  *)
(* a device, tried in order.                                               *)

AlwaysTrue       == [type |-> "true",    runtime |-> None, percent |-> 0]
HashLt(p)        == [type |-> "hash_lt", runtime |-> None, percent |-> p]
RtvAndHash(r, p) == [type |-> "and",     runtime |-> r,    percent |-> p]
OtherLogic       == [type |-> "other",   runtime |-> None, percent |-> 0]

\* Fault: the upper end is not checked.
IsPercentUnbounded(p) == p \in Nat

IsPercent(p) == p \in 0..100

Logics == [type : {"true", "hash_lt", "and", "other"},
           runtime : Runtimes \cup {None}, percent : 0..100]
Node(b, l) == [branch |-> b, logic |-> l]
Mappings   == Seq([branch : Branches, logic : Logics])

IsEmpty(m)    == Len(m) = 0
IsStandard(m) == Len(m) = 1 /\ m[1].logic.type = "true"
IsLegacy(m)   == Len(m) = 2 /\ m[1].logic.type = "hash_lt" /\ m[2].logic.type = "true"
IsConstrained(m) == Len(m) = 2 /\ m[1].logic.type = "and" /\ m[2].logic.type = "true"
IsRollout(m)  == IsLegacy(m) \/ IsConstrained(m)

RolledOut(m)  == m[1].branch
Default(m)    == m[Len(m)].branch
BranchesOf(m) == {m[i].branch : i \in DOMAIN m}

Standard(b) == <<Node(b, AlwaysTrue)>>

\* Fault: the branch to roll out is the one to fall back to.
CreateMappingSwapped(d, b, r, p) == <<Node(d, RtvAndHash(r, p)), Node(b, AlwaysTrue)>>

CreateMapping(d, b, r, p) == <<Node(b, RtvAndHash(r, p)), Node(d, AlwaysTrue)>>

EditMapping(m, p) ==
  <<Node(RolledOut(m), IF IsConstrained(m) THEN RtvAndHash(m[1].logic.runtime, p)
                                           ELSE HashLt(p)), m[2]>>

-----------------------------------------------------------------------------
(* The server: what a device of runtime r whose hash is t of 0..99 gets, and *)
(* the newest group of a branch.                                           *)

Targets(m, r) == IsLegacy(m) \/ m[1].logic.runtime = r
Gets(m, r, t) ==
  IF IsRollout(m) /\ Targets(m, r) /\ t < m[1].logic.percent
    THEN RolledOut(m) ELSE Default(m)

\* updateGroups(limit: 1, filter); without a filter r is None.
LatestGroup(b, r) ==
  LET runtime == IF r = None THEN top[b] ELSE r
  IN  IF runtime = None THEN None
      ELSE IF newest[b][runtime] = 0 THEN None
      ELSE [runtime |-> runtime, content |-> newest[b][runtime]]

Put(b, r, content) ==
  /\ newest' = [newest EXCEPT ![b] = [@ EXCEPT ![r] = content]]
  /\ top' = [top EXCEPT ![b] = r]

-----------------------------------------------------------------------------

Commands == {"create", "edit", "end", "point"}
PCs      == {"idle", "view", "ask", "confirm", "republish", "revert"}
Groups   == [runtime : Runtimes, content : 1..MaxUpdates]

\* One invariant for the shape of every variable.
TypeOK ==
  /\ mapping \in Mappings
  /\ newest \in [Branches -> [Runtimes -> 0..MaxUpdates]]
  /\ top \in [Branches -> Runtimes \cup {None}]
  /\ updates \in 0..MaxUpdates
  /\ pc \in [Operators -> PCs]
  /\ cmd \in [Operators -> Commands \cup {None}]
  /\ info \in [Operators -> Mappings]
  /\ seen \in [Operators -> Mappings]
  /\ group \in [Operators -> Groups \cup {None}]
  /\ next \in [Operators -> Mappings]
  /\ overtaken \in [Operators -> BOOLEAN]

\* The channel points nowhere or at one branch, or has a mapping that other
\* tools or an older release, whose rollouts name no runtime, have left.
Init ==
  /\ mapping \in {<<>>} \cup {Standard(b) : b \in Branches}
       \cup {<<Node(b, OtherLogic)>> : b \in Branches}
       \cup {m \in {<<Node(b, HashLt(p)), Node(d, AlwaysTrue)>> :
                        b \in Branches, d \in Branches, p \in Percents \cap 0..100} :
                RolledOut(m) # Default(m)}
  /\ newest = [b \in Branches |-> [r \in Runtimes |-> 0]]
  /\ top = [b \in Branches |-> None] /\ updates = 0
  /\ pc = [o \in Operators |-> "idle"] /\ cmd = [o \in Operators |-> None]
  /\ info = [o \in Operators |-> <<>>] /\ seen = [o \in Operators |-> <<>>]
  /\ group = [o \in Operators |-> None] /\ next = [o \in Operators |-> <<>>]
  /\ overtaken = [o \in Operators |-> FALSE]

Goto(o, p) == pc' = [pc EXCEPT ![o] = p]
At(o, c, p) == cmd[o] = c /\ pc[o] = p

\* The command is over, and its locals with it.
Over(o) ==
  /\ Goto(o, "idle") /\ cmd' = [cmd EXCEPT ![o] = None]
  /\ info' = [info EXCEPT ![o] = <<>>] /\ seen' = [seen EXCEPT ![o] = <<>>]
  /\ group' = [group EXCEPT ![o] = None] /\ next' = [next EXCEPT ![o] = <<>>]
  /\ overtaken' = [overtaken EXCEPT ![o] = FALSE]

\* Fault: channel:edit does not look for a rollout.
AdmitsPointAlways(c, m) ==
  CASE c = "create" -> IsStandard(m)
    [] c \in {"edit", "end"} -> IsRollout(m)
    [] c = "point" -> TRUE

\* The commands' checks of the channel they are given; otherwise they throw.
Admits(c, m) ==
  CASE c = "create" -> IsStandard(m)
    [] c \in {"edit", "end"} -> IsRollout(m)
    [] c = "point" -> IsStandard(m) \/ IsEmpty(m)

\* The group that came with a reading counts if no second one replaces it.
Begin(o, c) ==
  /\ pc[o] = "idle" /\ Admits(c, mapping)
  /\ cmd' = [cmd EXCEPT ![o] = c]
  /\ info' = [info EXCEPT ![o] = mapping] /\ seen' = [seen EXCEPT ![o] = mapping]
  /\ group' = IF c = "end" /\ IsLegacy(mapping)
                THEN [group EXCEPT ![o] = LatestGroup(RolledOut(mapping), None)] ELSE group
  /\ Goto(o, IF c \in {"edit", "end"} THEN "view" ELSE "ask")
  /\ UNCHANGED <<server, next, overtaken>>

\* The client caches what it queried.  The second read asks the same again when the
\* rollout names no runtime to filter by, unless the channel came from a list.
FromCache(o) == IsLegacy(info[o]) /\ UNCHANGED <<seen, group>>

\* create: the questions, then a second read that only looks the default
\* branch up, then the confirmation.
AskCreate(o) ==
  /\ At(o, "create", "ask")
  /\ \E b \in Branches \ {Default(info[o])}, r \in Runtimes, p \in Percents :
       /\ IsPercent(p)
       /\ next' = [next EXCEPT ![o] = CreateMapping(Default(info[o]), b, r, p)]
  /\ Goto(o, "view")
  /\ UNCHANGED <<server, cmd, info, seen, group, overtaken>>

ViewCreate(o) ==
  /\ At(o, "create", "view")
  /\ Default(info[o]) \in BranchesOf(mapping)
  /\ Goto(o, "confirm")
  /\ UNCHANGED <<server, cmd, info, seen, group, next, overtaken>>

\* edit: a second read, which the new mapping is made from, and one question;
\* the first reading is not looked at again.
ViewEdit(o) ==
  /\ At(o, "edit", "view")
  /\ \/ IsRollout(mapping) /\ seen' = [seen EXCEPT ![o] = mapping] /\ UNCHANGED group
     \/ FromCache(o)
  /\ info' = [info EXCEPT ![o] = <<>>]
  /\ Goto(o, "ask")
  /\ UNCHANGED <<server, cmd, next, overtaken>>

AskEdit(o) ==
  /\ At(o, "edit", "ask")
  /\ \E p \in Percents :
       IsPercent(p) /\ next' = [next EXCEPT ![o] = EditMapping(seen[o], p)]
  /\ Goto(o, "confirm")
  /\ UNCHANGED <<server, cmd, info, seen, group, overtaken>>

\* end: a second read, filtered by the runtime of the first one, and the choice
\* between the group rolled out, if there is one, and the default branch.
ViewEnd(o) ==
  /\ At(o, "end", "view")
  /\ \/ /\ IsRollout(mapping) /\ seen' = [seen EXCEPT ![o] = mapping]
        /\ group' = [group EXCEPT ![o] =
                       LatestGroup(RolledOut(mapping), info[o][1].logic.runtime)]
     \/ FromCache(o)
  /\ Goto(o, "ask")
  /\ UNCHANGED <<server, cmd, info, next, overtaken>>

AskEnd(o) ==
  /\ At(o, "end", "ask")
  /\ next' = [next EXCEPT ![o] = Standard(Default(seen[o]))]
  /\ \/ Goto(o, "confirm")
     \/ group[o] # None /\ Goto(o, "republish")
  /\ UNCHANGED <<server, cmd, info, seen, group, overtaken>>

\* Fault: the group is put back on its own branch.
RepublishInPlace(o) ==
  /\ pc[o] = "republish"
  /\ Put(RolledOut(seen[o]), group[o].runtime, group[o].content)
  /\ Goto(o, "revert")
  /\ UNCHANGED <<mapping, updates, cmd, info, seen, group, next, overtaken>>

\* Operators, other than those in S, whose republished group is no longer the
\* newest once one of runtime r is put on b.
Overtaken(b, r, S) ==
  [x \in Operators |->
     \/ overtaken[x]
     \/ /\ pc[x] = "revert" /\ x \notin S
        /\ Default(seen[x]) = b /\ group[x].runtime = r]

Republish(o) ==
  LET b == Default(seen[o])
  IN  /\ pc[o] = "republish"
      /\ Put(b, group[o].runtime, group[o].content)
      /\ overtaken' = Overtaken(b, group[o].runtime, {o})
      /\ Goto(o, "revert")
      /\ UNCHANGED <<mapping, updates, cmd, info, seen, group, next>>

AskPoint(o) ==
  /\ At(o, "point", "ask")
  /\ \E b \in Branches : next' = [next EXCEPT ![o] = Standard(b)]
  /\ Goto(o, "confirm")
  /\ UNCHANGED <<server, cmd, info, seen, group, overtaken>>

\* updateChannelBranchMappingAsync: the last write wins.
Write(o) ==
  /\ pc[o] \in {"confirm", "revert"}
  /\ mapping' = next[o]
  /\ Over(o)
  /\ UNCHANGED <<newest, top, updates>>

\* The operator declines, or a request, a check or a signature fails.
GiveUp(o) == pc[o] # "idle" /\ Over(o) /\ UNCHANGED server

\* eas update by anyone.
Publish(b, r) ==
  /\ updates < MaxUpdates
  /\ updates' = updates + 1
  /\ Put(b, r, updates + 1)
  /\ overtaken' = Overtaken(b, r, {})
  /\ UNCHANGED <<mapping, pc, cmd, info, seen, group, next>>

Step(o) ==
  \/ \E c \in Commands : Begin(o, c)
  \/ AskCreate(o) \/ ViewCreate(o) \/ ViewEdit(o) \/ AskEdit(o)
  \/ ViewEnd(o) \/ AskEnd(o) \/ Republish(o) \/ AskPoint(o)
  \/ Write(o) \/ GiveUp(o)

Next ==
  \/ \E o \in Operators : Step(o)
  \/ \E b \in Branches, r \in Runtimes : Publish(b, r)

Spec == Init /\ [][Next]_vars

-----------------------------------------------------------------------------
(* Properties.                                                             *)

\* m2 is the rollout m1 with another percentage, or its end.
Continues(m1, m2) ==
  \/ m2 = Standard(Default(m1))
  \/ /\ IsRollout(m2) /\ Default(m2) = Default(m1) /\ RolledOut(m2) = RolledOut(m1)
     /\ \A r \in Runtimes : Targets(m2, r) <=> Targets(m1, r)

\* A command whose reading of the channel is still true when it writes never
\* replaces a rollout by anything but its end or another percentage; so a
\* rollout can only be lost, or be revived, by a write that overtook another.
RolloutContinues == IsRollout(mapping) => Continues(mapping, mapping')

\* Neither the creation of a rollout nor a change of its percentage, made on a
\* true reading, changes what is served to a device of another runtime or with
\* a hash above both percentages.
OutsideUntouched(o) ==
  cmd[o] \in {"create", "edit"} =>
    \A r \in Runtimes, t \in 0..99 :
      \/ /\ Targets(mapping', r)
         /\ t < mapping'[1].logic.percent \/ t < mapping[1].logic.percent
      \/ newest'[Gets(mapping', r, t)][r] = newest[Gets(mapping, r, t)][r]

\* A command written on a true reading does to the rollout, and to the devices
\* outside it, what its operator saw and nothing else.
TrueReadingsKept ==
  [][\A o \in Operators :
       Write(o) /\ seen[o] = mapping => RolloutContinues /\ OutsideUntouched(o)]_vars

\* When a rollout was ended by republishing, all devices of that runtime get
\* the group that was chosen, unless someone has published since; and if the
\* channel was the same in both reads, it is a group the rollout was serving.
EndServesChosen ==
  [][\A o \in Operators :
       Write(o) /\ pc[o] = "revert" =>
         /\ overtaken[o] \/ \A t \in 0..99 :
              newest'[Gets(mapping', group[o].runtime, t)][group[o].runtime]
                = group[o].content
         /\ info[o] = seen[o] => Targets(seen[o], group[o].runtime)]_vars

=============================================================================
