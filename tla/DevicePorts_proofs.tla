-------------------------- MODULE DevicePorts_proofs --------------------------
(***************************************************************************)
(* Proofs about DevicePorts, for any number of ports, members, blocks and  *)
(* applies, whatever administrators and unifi_port actions do meanwhile.   *)
(***************************************************************************)
EXTENDS DevicePorts, Subsequences_proofs

-----------------------------------------------------------------------------
(* The inductive invariant.                                                 *)

\* Where an apply is and what it has in hand there.
PhaseOK ==
  /\ phase = "overlay" <=> groups # << >>
  /\ phase # "overlay" => snapshot = Null
  /\ phase # "idle" => config \in Configs
  /\ phase # "idle" /\ ~creating => tracked # NoState
  /\ outcome = "applied" => phase = "idle"

\* A call that nobody disturbs overlays the array as it is.
SnapshotOK == undisturbed /\ snapshot # Null => snapshot = entries

\* Every block of a call speaks for its port, and the mask is what it declares.
CallOK(g, c) ==
  \A b \in g.blocks : /\ b.index \in Indexes(c) /\ b = Governing(c, b.index)
                      /\ g.fields = DeclaredFields(b)
CallsOK == \A k \in DOMAIN groups : CallOK(groups[k], config)

\* What a port's block declares is on the controller, or a call still to be made has it.
Landed(p) ==
  \A m \in DeclaredFields(Governing(config, p)) :
    Held(entries, p, m) = Governing(config, p).set[m]
Pending(p) == \E k \in DOMAIN groups : Governing(config, p) \in groups[k].blocks
LandingOK ==
  undisturbed /\ (phase # "idle" \/ outcome = "applied") =>
    \A p \in Indexes(config) : Landed(p) \/ Pending(p)

\* What an apply plans has been declared, and a block in state always has an op_mode: it
\* is the one member that a reconciliation fills in unasked.
PlannedWasDeclared ==
  phase # "idle" =>
    \A i \in DOMAIN config, m \in Members :
      Planned(config[i]).set[m] # Null => <<config[i].index, m>> \in everDeclared
OpModeTracked == tracked # NoState => \A i \in DOMAIN tracked : tracked[i].set[OpMode] # Null

PortsInv ==
  /\ TypeOK /\ PhaseOK /\ SnapshotOK /\ CallsOK /\ LandingOK
  /\ PlannedWasDeclared /\ OpModeTracked /\ TrackedWasDeclared /\ StateTellsTruth

-----------------------------------------------------------------------------
(* The calls of a configuration.                                             *)

Entries == [Ports -> Entry \cup {NoEntry}]

\* The block that speaks for a port is the last of the blocks naming it.
LEMMA GoverningSpeaks ==
  ASSUME NEW c \in Seq(ConfigBlock), NEW p \in Indexes(c)
  PROVE  /\ Governing(c, p) \in ConfigBlock /\ Governing(c, p).index = p
         /\ \E i \in DOMAIN c : Governing(c, p) = c[i]
  <1> DEFINE T == {i \in DOMAIN c : c[i].index = p}
  <1>1. Len(c) \in Nat /\ T \in SUBSET (1..Len(c)) /\ T # {}
    BY DEF Indexes
  <1>2. PICK i \in T : \A j \in T : j <= i
    BY <1>1, LastPlace
  <1>3. i \in DOMAIN c /\ c[i].index = p /\ \A j \in DOMAIN c : c[j].index = p => j <= i
    BY <1>2
  <1> DEFINE last == CHOOSE k \in DOMAIN c :
                       c[k].index = p /\ \A j \in DOMAIN c : c[j].index = p => j <= k
  <1>4. last \in DOMAIN c /\ c[last].index = p
    BY <1>3
  <1>5. Governing(c, p) = c[last]
    BY DEF Governing
  <1> HIDE DEF last
  <1>6. c[last] \in ConfigBlock
    BY <1>4
  <1> QED
    BY <1>4, <1>5, <1>6

\* Deduplicated, a configuration has the block that speaks for each port it names, and no other.
LEMMA DedupedSpeaks ==
  ASSUME NEW c \in Seq(ConfigBlock)
  PROVE  /\ Deduped(c) \in Seq(ConfigBlock)
         /\ \A k \in DOMAIN Deduped(c) :
              /\ Deduped(c)[k].index \in Indexes(c)
              /\ Deduped(c)[k] = Governing(c, Deduped(c)[k].index)
         /\ \A p \in Indexes(c) : \E k \in DOMAIN Deduped(c) : Deduped(c)[k] = Governing(c, p)
  <1> DEFINE I == {i \in DOMAIN c : \A j \in 1..(i - 1) : c[j].index # c[i].index}
             f == At(c, I)
  <1>1. /\ f \in Seq(ConfigBlock)
        /\ \A k \in DOMAIN f : \E i \in I : f[k] = c[i]
        /\ \A i \in I : \E k \in DOMAIN f : f[k] = c[i]
    <2>1. I \in SUBSET (DOMAIN c)
      OBVIOUS
    <2> HIDE DEF I
    <2> QED
      BY <2>1, AtProperties
  <1>2. Deduped(c) = [k \in DOMAIN f |-> Governing(c, f[k].index)]
    BY DEF Deduped, FirstsBy
  <1>3. ASSUME NEW p \in Indexes(c) PROVE \E i \in I : c[i].index = p
    <2> DEFINE T == {i \in DOMAIN c : c[i].index = p}
    <2>1. Len(c) \in Nat /\ T \in SUBSET (1..Len(c)) /\ T # {}
      BY DEF Indexes
    <2>2. PICK i \in T : \A j \in 1..(i - 1) : j \notin T
      BY <2>1, FirstPlace
    <2>3. \A j \in 1..(i - 1) : j \in DOMAIN c
      BY <2>1
    <2> QED
      BY <2>2, <2>3
  <1> HIDE DEF f
  <1>4. \A k \in DOMAIN f : f[k].index \in Indexes(c)
    BY <1>1 DEF Indexes
  <1>5. \A k \in DOMAIN f : /\ Governing(c, f[k].index) \in ConfigBlock
                            /\ Governing(c, f[k].index).index = f[k].index
    BY <1>4, GoverningSpeaks
  <1>6. Deduped(c) \in Seq(ConfigBlock)
    <2>1. DOMAIN f = 1..Len(f) /\ Len(f) \in Nat
      BY <1>1
    <2>2. Deduped(c) \in [1..Len(f) -> ConfigBlock]
      BY <1>2, <1>5, <2>1
    <2> QED
      BY <2>1, <2>2
  <1>7. \A p \in Indexes(c) : \E k \in DOMAIN f : f[k].index = p
    BY <1>1, <1>3
  <1> QED
    BY <1>2, <1>4, <1>5, <1>6, <1>7

\* The calls: every block that declares something is in one, and in each are blocks that speak
\* for their ports and declare just what its mask names.
LEMMA DeclaredCallsOK ==
  ASSUME NEW c \in Seq(ConfigBlock)
  PROVE  /\ DeclaredCalls(c) \in Seq(Call)
         /\ \A k \in DOMAIN DeclaredCalls(c) : CallOK(DeclaredCalls(c)[k], c)
         /\ \A p \in Indexes(c) : DeclaredFields(Governing(c, p)) # {} =>
              \E k \in DOMAIN DeclaredCalls(c) : Governing(c, p) \in DeclaredCalls(c)[k].blocks
  <1> DEFINE d == Deduped(c)
             w == WithFields(d)
             I == {i \in DOMAIN d : DeclaredFields(d[i]) # {}}
             J == {i \in DOMAIN w : \A j \in 1..(i - 1) : DeclaredFields(w[j]) # DeclaredFields(w[i])}
             f == At(w, J)
             call(b) == [fields |-> DeclaredFields(b),
                         blocks |-> {x \in Range(w) : DeclaredFields(x) = DeclaredFields(b)}]
  <1>1. d \in Seq(ConfigBlock)
    BY DedupedSpeaks
  <1> HIDE DEF d
  <1>2. /\ w \in Seq(ConfigBlock)
        /\ \A k \in DOMAIN w : \E i \in I : w[k] = d[i]
        /\ \A i \in I : \E k \in DOMAIN w : w[k] = d[i]
    <2>1. I \in SUBSET (DOMAIN d) /\ w = At(d, I)
      BY DEF WithFields
    <2> HIDE DEF I, w
    <2> QED
      BY <1>1, <2>1, AtProperties
  <1> HIDE DEF w
  <1>3. /\ f \in Seq(ConfigBlock)
        /\ \A k \in DOMAIN f : \E i \in J : f[k] = w[i]
        /\ \A i \in J : \E k \in DOMAIN f : f[k] = w[i]
    <2>1. J \in SUBSET (DOMAIN w)
      OBVIOUS
    <2> HIDE DEF J
    <2> QED
      BY <1>2, <2>1, AtProperties
  <1>4. DeclaredCalls(c) = [k \in DOMAIN f |-> call(f[k])]
    BY DEF DeclaredCalls, Grouped, FirstsBy, w, d
  <1>5. \A b \in Range(w) : /\ b \in ConfigBlock /\ DeclaredFields(b) \in (SUBSET Members) \ {{}}
                            /\ b.index \in Indexes(c) /\ b = Governing(c, b.index)
    <2>1. \A k \in DOMAIN w : \E i \in DOMAIN d : w[k] = d[i] /\ DeclaredFields(d[i]) # {}
      BY <1>2
    <2>2. \A b : DeclaredFields(b) \in SUBSET Members
      BY DEF DeclaredFields
    <2>3. \A i \in DOMAIN d : d[i] \in ConfigBlock /\ d[i].index \in Indexes(c)
                              /\ d[i] = Governing(c, d[i].index)
      BY <1>1, DedupedSpeaks DEF d
    <2> QED
      BY <2>1, <2>2, <2>3 DEF Range
  <1>6. \A k \in DOMAIN f : f[k] \in Range(w)
    BY <1>3 DEF Range
  <1>7. ASSUME NEW p \in Indexes(c), DeclaredFields(Governing(c, p)) # {}
        PROVE  \E k \in DOMAIN f : Governing(c, p) \in call(f[k]).blocks
    <2>1. PICK i \in DOMAIN d : d[i] = Governing(c, p)
      BY DedupedSpeaks DEF d
    <2>2. PICK k \in DOMAIN w : w[k] = Governing(c, p)
      BY <1>2, <1>7, <2>1
    <2> DEFINE T == {j \in DOMAIN w : DeclaredFields(w[j]) = DeclaredFields(w[k])}
    <2>3. Len(w) \in Nat /\ T \in SUBSET (1..Len(w)) /\ T # {}
      BY <1>2
    <2>4. PICK n \in T : \A j \in 1..(n - 1) : j \notin T
      BY <2>3, FirstPlace
    <2>5. n \in J /\ DeclaredFields(w[n]) = DeclaredFields(w[k])
      BY <1>2, <2>3, <2>4
    <2>6. PICK x \in DOMAIN f : f[x] = w[n]
      BY <1>3, <2>5
    <2> QED
      BY <2>2, <2>5, <2>6 DEF Range
  <1> HIDE DEF f
  <1>8. \A k \in DOMAIN f : call(f[k]) \in Call /\ CallOK(call(f[k]), c)
    BY <1>5, <1>6 DEF Call, CallOK
  <1> HIDE DEF call
  <1>9. DeclaredCalls(c) \in Seq(Call)
    <2>1. DOMAIN f = 1..Len(f) /\ Len(f) \in Nat
      BY <1>3
    <2>2. DeclaredCalls(c) \in [1..Len(f) -> Call]
      BY <1>4, <1>8, <2>1
    <2> QED
      BY <2>1, <2>2
  <1> QED
    BY <1>4, <1>7, <1>8, <1>9

-----------------------------------------------------------------------------
(* What the helpers return.                                                  *)

\* A call lays, over each port it has a block for, what that block declares, and leaves every
\* other member of every port as it was.
LEMMA OverlaidHolds ==
  ASSUME NEW c \in Seq(ConfigBlock), NEW g \in Call, CallOK(g, c), NEW stored \in Entries
  PROVE  /\ Overlaid(stored, g) \in Entries
         /\ \A p \in Ports, m \in Members :
              Held(Overlaid(stored, g), p, m) =
                IF \E b \in g.blocks : b.index = p /\ m \in g.fields
                THEN Governing(c, p).set[m] ELSE Held(stored, p, m)
  <1>1. /\ g.fields \in SUBSET Members /\ g.blocks \in SUBSET ConfigBlock
        /\ \A b \in g.blocks : b = Governing(c, b.index) /\ g.fields = DeclaredFields(b)
    BY DEF CallOK, Call
  <1>2. ASSUME NEW p \in Ports, NEW b \in g.blocks, b.index = p
        PROVE  /\ Overlaid(stored, g)[p] \in Entry
               /\ \A m \in Members : Overlaid(stored, g)[p][m] =
                    (IF m \in g.fields THEN Governing(c, p).set[m] ELSE Held(stored, p, m))
    <2> DEFINE x == CHOOSE x \in g.blocks : x.index = p
               e == [m \in Members |->
                      IF m \in g.fields THEN Wire(x, m)
                      ELSE IF stored[p] = NoEntry THEN Zero ELSE stored[p][m]]
    <2>1. x \in g.blocks /\ x.index = p
      BY <1>2
    <2>2. Overlaid(stored, g)[p] = e
      BY <1>2 DEF Overlaid
    <2> HIDE DEF x
    <2>3. x = Governing(c, p) /\ x \in ConfigBlock /\ g.fields = DeclaredFields(x)
      BY <1>1, <2>1
    <2>4. \A m \in g.fields : m \in Members /\ x.set[m] # Null /\ x.set[m] \in Values
      BY <2>3 DEF DeclaredFields, ConfigBlock
    <2>5. \A m \in g.fields : Wire(x, m) = x.set[m]
      BY <2>4 DEF Wire
    <2>6. stored[p] = NoEntry \/ stored[p] \in [Members -> Values]
      BY DEF Entries, Entry
    <2>7. e \in [Members -> Values]
      BY <2>4, <2>5, <2>6, PortsAssumption
    <2> QED
      BY <2>2, <2>3, <2>5, <2>7 DEF Entry, Held
  <1>3. ASSUME NEW p \in Ports, ~\E b \in g.blocks : b.index = p
        PROVE  Overlaid(stored, g)[p] = stored[p]
    BY <1>3 DEF Overlaid
  <1>4. Overlaid(stored, g) \in Entries
    <2>1. \A p \in Ports : Overlaid(stored, g)[p] \in Entry \cup {NoEntry}
      BY <1>2, <1>3 DEF Entries
    <2>2. Overlaid(stored, g) = [p \in Ports |-> Overlaid(stored, g)[p]]
      BY DEF Overlaid
    <2> QED
      BY <2>1, <2>2 DEF Entries
  <1>5. ASSUME NEW p \in Ports, NEW m \in Members
        PROVE  Held(Overlaid(stored, g), p, m) =
                 IF \E b \in g.blocks : b.index = p /\ m \in g.fields
                 THEN Governing(c, p).set[m] ELSE Held(stored, p, m)
    <2>1. CASE \E b \in g.blocks : b.index = p
      <3>1. Overlaid(stored, g)[p] # NoEntry
        BY <1>2, <2>1, PortsAssumption DEF Entry
      <3> QED
        BY <1>2, <2>1, <3>1 DEF Held
    <2>2. CASE ~\E b \in g.blocks : b.index = p
      BY <1>3, <2>2 DEF Held
    <2> QED
      BY <2>1, <2>2
  <1> QED
    BY <1>4, <1>5

\* The action's merge leaves every other member of every port as it read it.
LEMMA MergedHolds ==
  ASSUME NEW stored \in Entries, NEW p \in Ports, NEW v \in Values
  PROVE  /\ MergedPort(stored, p, v) \in Entries
         /\ \A q \in Ports, m \in Members :
              Held(MergedPort(stored, p, v), q, m) =
                IF q = p /\ m = PoeMode THEN v ELSE Held(stored, q, m)
  <1> DEFINE e == [m \in Members |-> IF m = PoeMode THEN v ELSE
                                       IF stored[p] = NoEntry THEN Zero ELSE stored[p][m]]
  <1>1. e \in Entry
    BY PortsAssumption DEF Entries, Entry
  <1>2. /\ MergedPort(stored, p, v) = [stored EXCEPT ![p] = e]
        /\ \A m \in Members : e[m] = IF m = PoeMode THEN v ELSE Held(stored, p, m)
    BY DEF MergedPort, Held
  <1> HIDE DEF e
  <1>3. /\ MergedPort(stored, p, v) \in Entries
        /\ MergedPort(stored, p, v)[p] = e
        /\ \A q \in Ports : q # p => MergedPort(stored, p, v)[q] = stored[q]
    BY <1>1, <1>2 DEF Entries
  <1>4. e # NoEntry
    BY <1>1, PortsAssumption DEF Entry
  <1> QED
    BY <1>2, <1>3, <1>4 DEF Held

\* A create plans a block of the same port, with an op_mode.
LEMMA PlannedBlock ==
  ASSUME NEW b \in ConfigBlock
  PROVE  Planned(b) \in TrackedBlock /\ Planned(b).index = b.index /\ Planned(b).set[OpMode] # Null
  <1> DEFINE s == [m \in Members |->
                    IF b.set[m] # Null THEN b.set[m]
                    ELSE IF m = OpMode THEN Zero
                    ELSE IF m \in ComputedMembers THEN Unknown ELSE Null]
  <1>1. s \in [Members -> Values \cup {Null, Unknown}] /\ s[OpMode] # Null
    BY PortsAssumption DEF ConfigBlock
  <1>2. Planned(b) = [b EXCEPT !.set = s]
    BY DEF Planned
  <1> HIDE DEF s
  <1> QED
    BY <1>1, <1>2 DEF ConfigBlock, TrackedBlock

\* A reconciliation keeps the blocks and their ports.  A block of a port the controller
\* does not report stays as it was; in any other, each member is null or the controller's.
LEMMA ReconciledBlocks ==
  ASSUME NEW prior \in Seq(TrackedBlock), NEW stored \in Entries
  PROVE  /\ Reconciled(prior, stored) \in Seq(TrackedBlock)
         /\ DOMAIN Reconciled(prior, stored) = DOMAIN prior
         /\ \A i \in DOMAIN prior : LET b == Reconciled(prior, stored)[i] IN
              /\ b.index = prior[i].index
              /\ stored[b.index] = NoEntry => b = prior[i]
              /\ stored[b.index] # NoEntry => \A m \in Members :
                   b.set[m] = ReconciledMember(prior[i].set, stored[b.index], m)
  <1> DEFINE r(i) == [m \in Members |->
                       ReconciledMember(prior[i].set, stored[prior[i].index], m)]
             b(i) == IF stored[prior[i].index] = NoEntry THEN prior[i]
                     ELSE [prior[i] EXCEPT !.set = r(i)]
  <1>1. Reconciled(prior, stored) = [i \in DOMAIN prior |-> b(i)]
    BY DEF Reconciled
  <1>2. ASSUME NEW i \in DOMAIN prior
        PROVE  /\ b(i) \in TrackedBlock /\ b(i).index = prior[i].index
               /\ stored[prior[i].index] # NoEntry => b(i).set = r(i)
    <2>1. prior[i] \in TrackedBlock /\ prior[i].index \in Ports
      <3> HIDE DEF b, r
      <3>1. prior[i] \in TrackedBlock
        OBVIOUS
      <3> QED
        BY <3>1 DEF TrackedBlock
    <2>2. CASE stored[prior[i].index] = NoEntry
      BY <2>1, <2>2
    <2>3. CASE stored[prior[i].index] # NoEntry
      <3>1. stored[prior[i].index] \in [Members -> Values]
        BY <2>1, <2>3 DEF Entries, Entry
      <3>2. r(i) \in [Members -> Values \cup {Null, Unknown}]
        BY <3>1 DEF ReconciledMember
      <3> HIDE DEF r
      <3> QED
        BY <2>1, <2>3, <3>2 DEF TrackedBlock
    <2> QED
      BY <2>2, <2>3
  <1>3. Reconciled(prior, stored) \in Seq(TrackedBlock)
    <2>1. DOMAIN prior = 1..Len(prior) /\ Len(prior) \in Nat
      OBVIOUS
    <2> HIDE DEF b
    <2>2. Reconciled(prior, stored) \in [1..Len(prior) -> TrackedBlock]
      BY <1>1, <1>2, <2>1
    <2> QED
      BY <2>1, <2>2
  <1> QED
    BY <1>1, <1>2, <1>3

\* What an apply reconciles from is a list of blocks.
LEMMA PriorBlocks ==
  ASSUME TypeOK, PhaseOK, phase # "idle"
  PROVE  /\ Prior \in Seq(TrackedBlock)
         /\ creating => /\ DOMAIN Prior = DOMAIN config
                        /\ \A i \in DOMAIN config : Prior[i] = Planned(config[i])
         /\ ~creating => Prior = tracked /\ tracked # NoState
  <1>1. CASE creating
    <2>1. config \in Seq(ConfigBlock)
      BY ConfigsAssumption DEF PhaseOK
    <2>2. DOMAIN config = 1..Len(config) /\ Len(config) \in Nat
      BY <2>1
    <2>3. \A i \in DOMAIN config : Planned(config[i]) \in TrackedBlock
      BY <2>1, PlannedBlock
    <2>4. Prior = [i \in DOMAIN config |-> Planned(config[i])]
      BY <1>1 DEF Prior
    <2>5. Prior \in [1..Len(config) -> TrackedBlock]
      BY <2>2, <2>3, <2>4
    <2>6. Prior \in Seq(TrackedBlock)
      BY <2>2, <2>5
    <2> QED
      BY <1>1, <2>4, <2>6
  <1>2. CASE ~creating
    BY <1>2 DEF Prior, PhaseOK, TypeOK
  <1> QED
    BY <1>1, <1>2
-----------------------------------------------------------------------------
(* Each part of the invariant is kept.                                       *)

\* The next call overlays what was read, and is a call of the configuration.
LEMMA HeadCall ==
  ASSUME TypeOK, PhaseOK, CallsOK, phase = "overlay", snapshot # Null
  PROVE  /\ config \in Seq(ConfigBlock) /\ snapshot \in Entries
         /\ Head(groups) \in Call /\ CallOK(Head(groups), config)
         /\ Tail(groups) \in Seq(Call)
         /\ \A k \in DOMAIN Tail(groups) : k + 1 \in DOMAIN groups /\ Tail(groups)[k] = groups[k + 1]
         /\ \A k \in DOMAIN groups : k = 1 \/ k - 1 \in DOMAIN Tail(groups)
  <1>1. groups \in Seq(Call) /\ groups # << >>
    BY DEF TypeOK, PhaseOK
  <1>2. config \in Seq(ConfigBlock) /\ snapshot \in Entries
    BY ConfigsAssumption DEF TypeOK, PhaseOK, Entries
  <1>3. 1 \in DOMAIN groups /\ Head(groups) = groups[1]
    BY <1>1
  <1>4. Head(groups) \in Call /\ CallOK(Head(groups), config)
    BY <1>1, <1>3 DEF CallsOK
  <1>5. /\ Tail(groups) \in Seq(Call)
        /\ \A k \in DOMAIN Tail(groups) : k + 1 \in DOMAIN groups /\ Tail(groups)[k] = groups[k + 1]
        /\ \A k \in DOMAIN groups : k = 1 \/ k - 1 \in DOMAIN Tail(groups)
    BY <1>1
  <1> QED
    BY <1>2, <1>4, <1>5

\* The controller's array.
LEMMA EntriesStep ==
  ASSUME TypeOK, PhaseOK, CallsOK, [Next]_vars
  PROVE  entries' \in Entries /\ (snapshot' = Null \/ snapshot' \in Entries)
  <1> USE DEF TypeOK, Entries
  <1>1. CASE WriteOverlay
    BY <1>1, HeadCall, OverlaidHolds DEF WriteOverlay
  <1>2. CASE FinishAction
    <2>1. action.read \in Entries /\ action.port \in Ports /\ action.mode \in Values
      BY <1>2 DEF FinishAction
    <2> QED
      BY <1>2, <2>1, MergedHolds DEF FinishAction, workVars
  <1>3. CASE Edit
    <2>1. PICK p \in Ports : /\ entries[p] # NoEntry
                             /\ \/ entries' = [entries EXCEPT ![p] = NoEntry]
                                \/ \E m \in Members : \E v \in Values \ {entries[p][m]} :
                                     entries' = [entries EXCEPT ![p][m] = v]
      BY <1>3 DEF Edit
    <2>2. entries[p] \in [Members -> Values]
      BY <2>1 DEF Entry
    <2>3. ASSUME entries' = [entries EXCEPT ![p] = NoEntry] PROVE entries' \in Entries
      BY <2>3
    <2>4. ASSUME \E m \in Members : \E v \in Values \ {entries[p][m]} :
                   entries' = [entries EXCEPT ![p][m] = v]
          PROVE  entries' \in Entries
      <3>1. PICK m \in Members, v \in Values : entries' = [entries EXCEPT ![p][m] = v]
        BY <2>4
      <3>2. [entries[p] EXCEPT ![m] = v] \in Entry
        BY <2>2 DEF Entry
      <3> QED
        BY <3>1, <3>2
    <2> QED
      BY <1>3, <2>1, <2>3, <2>4 DEF Edit, workVars
  <1>4. CASE Destroy
    BY <1>4 DEF Destroy, workVars
  <1>5. CASE ReadStored \/ FailCall
    BY <1>5 DEF ReadStored, FailCall, ctlVars
  <1>6. CASE \/ \E p \in Ports, mode \in Values \ {Zero} : InvokeAction(p, mode)
             \/ ActionFails \/ Refresh \/ Import \/ UNCHANGED vars
    BY <1>6 DEF InvokeAction, ActionFails, Refresh, Import, workVars, ctlVars, vars
  <1>7. CASE WriteDevice \/ \E c \in Configs : StartApply(c)
    BY <1>7 DEF WriteDevice, StartApply, ctlVars
  <1> QED
    BY <1>1, <1>2, <1>3, <1>4, <1>5, <1>6, <1>7 DEF Next

\* The calls to make, and what is tracked.
LEMMA WorkStep ==
  ASSUME TypeOK, PhaseOK, CallsOK, [Next]_vars
  PROVE  /\ groups' \in Seq(Call) /\ (tracked' = NoState \/ tracked' \in Seq(TrackedBlock))
         /\ config' \in Configs \cup {<< >>}
         /\ everDeclared' \subseteq Ports \X Members
  <1> USE DEF TypeOK
  <1>1. CASE WriteOverlay
    BY <1>1, HeadCall DEF WriteOverlay
  <1>2. ASSUME NEW c \in Configs, StartApply(c)
        PROVE  /\ groups' \in Seq(Call) /\ (tracked' = NoState \/ tracked' \in Seq(TrackedBlock))
               /\ config' \in Configs \cup {<< >>}
               /\ everDeclared' \subseteq Ports \X Members
    <2>1. c \in Seq(ConfigBlock)
      BY ConfigsAssumption
    <2> QED
      BY <1>2, <2>1, DeclaredCallsOK DEF StartApply
  <1>3. CASE WriteDevice
    <2>1. Prior \in Seq(TrackedBlock) /\ entries \in Entries
      BY <1>3, PriorBlocks DEF WriteDevice, Entries
    <2>2. tracked' \in Seq(TrackedBlock)
      BY <1>3, <2>1, ReconciledBlocks DEF WriteDevice
    <2> QED
      BY <1>3, <2>2 DEF WriteDevice
  <1>4. CASE Refresh
    <2>1. tracked' \in Seq(TrackedBlock)
      BY <1>4, ReconciledBlocks DEF Refresh, Entries
    <2> QED
      BY <1>4, <2>1 DEF Refresh, workVars
  <1>5. CASE Import
    BY <1>5 DEF Import, workVars
  <1>6. CASE Destroy \/ Edit \/ FinishAction \/ ActionFails \/ UNCHANGED vars
             \/ \E p \in Ports, mode \in Values \ {Zero} : InvokeAction(p, mode)
    BY <1>6 DEF Destroy, Edit, FinishAction, ActionFails, InvokeAction, workVars, vars
  <1>7. CASE ReadStored
    BY <1>7 DEF ReadStored, ctlVars
  <1>8. CASE FailCall
    <2>1. << >> \in Seq(Call)
      OBVIOUS
    <2> QED
      BY <1>8, <2>1 DEF FailCall
  <1> QED
    BY <1>1, <1>2, <1>3, <1>4, <1>5, <1>6, <1>7, <1>8 DEF Next

\* The counters, the flags and the action under way.
LEMMA FlagsStep ==
  ASSUME TypeOK, [Next]_vars
  PROVE  /\ phase' \in {"idle", "overlay", "device"} /\ creating' \in BOOLEAN
         /\ action' = Null \/ action' \in [port : Ports, mode : Values \ {Zero}, read : Entries]
         /\ applies' \in 0..MaxApplies /\ edits' \in 0..MaxEdits
         /\ fresh' \in BOOLEAN /\ undisturbed' \in BOOLEAN
         /\ outcome' \in {"none", "applied", "refreshed", "failed"}
  <1> USE DEF TypeOK, Entries
  <1>1. CASE \E c \in Configs : StartApply(c)
    BY <1>1, PortsAssumption DEF StartApply, ctlVars
  <1>2. CASE ReadStored \/ WriteOverlay \/ WriteDevice \/ FailCall
    BY <1>2 DEF ReadStored, WriteOverlay, WriteDevice, FailCall, ctlVars
  <1>3. CASE Refresh \/ Import \/ Destroy \/ FinishAction \/ ActionFails \/ UNCHANGED vars
    BY <1>3 DEF Refresh, Import, Destroy, FinishAction, ActionFails, ctlVars, workVars, vars
  <1>4. CASE Edit
    <2>1. edits' \in 0..MaxEdits
      BY <1>4, PortsAssumption DEF Edit
    <2>2. fresh' = FALSE /\ undisturbed' = FALSE
          /\ UNCHANGED <<action, phase, creating, applies, outcome>>
      BY <1>4 DEF Edit, workVars
    <2> QED
      BY <2>1, <2>2, Zenon
  <1>5. CASE \E p \in Ports, mode \in Values \ {Zero} : InvokeAction(p, mode)
    BY <1>5, PortsAssumption DEF InvokeAction, workVars
  <1> QED
    BY <1>1, <1>2, <1>3, <1>4, <1>5 DEF Next
\* Every variable keeps its type.
LEMMA TypeOKStep ==
  ASSUME TypeOK, PhaseOK, CallsOK, [Next]_vars
  PROVE  TypeOK'
  <1>1. entries' \in Entries /\ (snapshot' = Null \/ snapshot' \in Entries)
    BY EntriesStep
  <1>2. /\ groups' \in Seq(Call) /\ (tracked' = NoState \/ tracked' \in Seq(TrackedBlock))
        /\ config' \in Configs \cup {<< >>}
        /\ everDeclared' \subseteq Ports \X Members
    BY WorkStep
  <1>3. /\ phase' \in {"idle", "overlay", "device"} /\ creating' \in BOOLEAN
        /\ action' = Null \/ action' \in [port : Ports, mode : Values \ {Zero}, read : Entries]
        /\ applies' \in 0..MaxApplies /\ edits' \in 0..MaxEdits
        /\ fresh' \in BOOLEAN /\ undisturbed' \in BOOLEAN
        /\ outcome' \in {"none", "applied", "refreshed", "failed"}
    BY FlagsStep
  <1> QED
    BY <1>1, <1>2, <1>3, Zenon DEF TypeOK, Entries

\* An apply goes on while it has calls to make.
LEMMA PhaseStep ==
  ASSUME TypeOK, PhaseOK, CallsOK, [Next]_vars
  PROVE  PhaseOK'
  <1> USE DEF PhaseOK
  <1>1. ASSUME NEW c \in Configs, StartApply(c) PROVE PhaseOK'
    BY <1>1 DEF StartApply, ctlVars
  <1>2. CASE ReadStored
    BY <1>2 DEF ReadStored, ctlVars
  <1>3. CASE WriteOverlay
    BY <1>3 DEF WriteOverlay
  <1>4. CASE WriteDevice
    BY <1>4 DEF WriteDevice, ctlVars, TypeOK
  <1>5. CASE FailCall
    BY <1>5 DEF FailCall, ctlVars
  <1>6. CASE Refresh \/ Import \/ Destroy
    BY <1>6 DEF Refresh, Import, Destroy, workVars, ctlVars
  <1>7. CASE Edit \/ FinishAction \/ ActionFails \/ UNCHANGED vars
             \/ \E p \in Ports, mode \in Values \ {Zero} : InvokeAction(p, mode)
    BY <1>7 DEF Edit, FinishAction, ActionFails, InvokeAction, workVars, vars
  <1> QED
    BY <1>1, <1>2, <1>3, <1>4, <1>5, <1>6, <1>7 DEF Next

\* Nothing comes between a call's read and its write unless somebody disturbs the apply.
LEMMA SnapshotStep ==
  ASSUME TypeOK, PhaseOK, SnapshotOK, [Next]_vars
  PROVE  SnapshotOK'
  <1> USE DEF SnapshotOK, PhaseOK
  <1>1. ASSUME NEW c \in Configs, StartApply(c) PROVE SnapshotOK'
    BY <1>1 DEF StartApply, ctlVars
  <1>2. CASE ReadStored \/ WriteDevice \/ FailCall
    BY <1>2 DEF ReadStored, WriteDevice, FailCall, ctlVars
  <1>3. CASE WriteOverlay \/ Edit \/ FinishAction
    BY <1>3 DEF WriteOverlay, Edit, FinishAction
  <1>4. CASE Refresh \/ Import \/ Destroy
    BY <1>4 DEF Refresh, Import, Destroy, workVars, ctlVars
  <1>5. CASE ActionFails \/ UNCHANGED vars
             \/ \E p \in Ports, mode \in Values \ {Zero} : InvokeAction(p, mode)
    BY <1>5 DEF ActionFails, InvokeAction, workVars, vars
  <1> QED
    BY <1>1, <1>2, <1>3, <1>4, <1>5 DEF Next

\* The calls stay the configuration's.
LEMMA CallsStep ==
  ASSUME TypeOK, PhaseOK, CallsOK, [Next]_vars
  PROVE  CallsOK'
  <1>1. ASSUME NEW c \in Configs, StartApply(c) PROVE CallsOK'
    <2>1. c \in Seq(ConfigBlock) /\ groups' = DeclaredCalls(c) /\ config' = c
      BY <1>1, ConfigsAssumption DEF StartApply
    <2> QED
      BY <2>1, DeclaredCallsOK DEF CallsOK
  <1>2. CASE WriteOverlay
    <2>1. \A k \in DOMAIN groups' : \E n \in DOMAIN groups : groups'[k] = groups[n]
      BY <1>2, HeadCall DEF WriteOverlay
    <2> QED
      BY <1>2, <2>1 DEF CallsOK, WriteOverlay
  <1>3. CASE FailCall
    BY <1>3 DEF CallsOK, FailCall
  <1>4. CASE ReadStored \/ WriteDevice
    BY <1>4 DEF CallsOK, ReadStored, WriteDevice
  <1>5. CASE Refresh \/ Import \/ Destroy \/ Edit \/ FinishAction \/ ActionFails \/ UNCHANGED vars
             \/ \E p \in Ports, mode \in Values \ {Zero} : InvokeAction(p, mode)
    BY <1>5 DEF CallsOK, Refresh, Import, Destroy, Edit, FinishAction, ActionFails, InvokeAction,
                workVars, vars
  <1> QED
    BY <1>1, <1>2, <1>3, <1>4, <1>5 DEF Next

\* What has landed stays, and each call lands what it has: a port is in one call only, so no
\* call undoes what an earlier one wrote.
LEMMA LandingStep ==
  ASSUME TypeOK, PhaseOK, SnapshotOK, CallsOK, LandingOK, [Next]_vars
  PROVE  LandingOK'
  <1>1. ASSUME NEW c \in Configs, StartApply(c) PROVE LandingOK'
    <2>1. c \in Seq(ConfigBlock) /\ groups' = DeclaredCalls(c) /\ config' = c
      BY <1>1, ConfigsAssumption DEF StartApply
    <2>2. ASSUME NEW p \in Indexes(c) PROVE Landed(p)' \/ Pending(p)'
      <3>1. CASE DeclaredFields(Governing(c, p)) = {}
        BY <2>1, <3>1 DEF Landed
      <3>2. CASE DeclaredFields(Governing(c, p)) # {}
        BY <2>1, <2>2, <3>2, DeclaredCallsOK DEF Pending
      <3> QED
        BY <3>1, <3>2
    <2> QED
      BY <2>1, <2>2 DEF LandingOK
  <1>2. CASE WriteOverlay
    <2> SUFFICES ASSUME undisturbed, NEW p \in Indexes(config) PROVE Landed(p)' \/ Pending(p)'
      BY <1>2 DEF WriteOverlay, LandingOK
    <2> DEFINE g == Head(groups)
    <2>1. /\ config \in Seq(ConfigBlock) /\ g \in Call /\ CallOK(g, config) /\ entries \in Entries
          /\ entries' = Overlaid(entries, g) /\ groups' = Tail(groups) /\ config' = config
      BY <1>2, HeadCall DEF WriteOverlay, SnapshotOK
    <2>2. /\ Governing(config, p) \in ConfigBlock /\ Governing(config, p).index = p
          /\ p \in Ports /\ DeclaredFields(Governing(config, p)) \subseteq Members
      BY <2>1, GoverningSpeaks DEF ConfigBlock, DeclaredFields
    <2>3. \A m \in Members : Held(entries', p, m) =
                IF \E b \in g.blocks : b.index = p /\ m \in g.fields
                THEN Governing(config, p).set[m] ELSE Held(entries, p, m)
      BY <2>1, <2>2, OverlaidHolds
    <2>4. CASE Landed(p)
      BY <2>1, <2>2, <2>3, <2>4 DEF Landed
    <2>5. CASE Governing(config, p) \in g.blocks
      <3>1. g.fields = DeclaredFields(Governing(config, p))
        BY <2>1, <2>5 DEF CallOK
      <3>2. \A m \in DeclaredFields(Governing(config, p)) :
              Held(entries', p, m) = Governing(config, p).set[m]
        BY <2>2, <2>3, <2>5, <3>1
      <3> QED
        BY <2>1, <3>2 DEF Landed
    <2>6. ASSUME NEW k \in DOMAIN groups, Governing(config, p) \in groups[k].blocks, k # 1
          PROVE  Pending(p)'
      <3>1. k - 1 \in DOMAIN Tail(groups) /\ Tail(groups)[k - 1] = groups[(k - 1) + 1]
        BY <1>2, <2>6, HeadCall DEF WriteOverlay
      <3>2. k \in Nat
        BY <2>6 DEF TypeOK
      <3>3. (k - 1) + 1 = k
        BY <3>2
      <3> QED
        BY <2>1, <2>6, <3>1, <3>3 DEF Pending
    <2>7. Landed(p) \/ Pending(p)
      BY <1>2 DEF LandingOK, WriteOverlay
    <2>8. groups[1] = g
      BY <1>2 DEF WriteOverlay, TypeOK, PhaseOK
    <2> QED
      BY <2>4, <2>5, <2>6, <2>7, <2>8 DEF Pending
  <1>3. CASE ReadStored
    BY <1>3 DEF ReadStored, LandingOK, Landed, Pending, ctlVars
  <1>4. CASE WriteDevice
    BY <1>4 DEF WriteDevice, LandingOK, Landed, Pending, ctlVars
  <1>5. CASE FailCall
    BY <1>5 DEF FailCall, LandingOK
  <1>6. CASE Refresh \/ Import \/ Destroy
    BY <1>6 DEF Refresh, Import, Destroy, LandingOK, workVars
  <1>7. CASE Edit \/ FinishAction
    BY <1>7 DEF Edit, FinishAction, LandingOK
  <1>8. CASE ActionFails \/ UNCHANGED vars
             \/ \E p \in Ports, mode \in Values \ {Zero} : InvokeAction(p, mode)
    BY <1>8 DEF ActionFails, InvokeAction, LandingOK, Landed, Pending, workVars, vars
  <1> QED
    BY <1>1, <1>2, <1>3, <1>4, <1>5, <1>6, <1>7, <1>8 DEF Next
\* Every action but these three leaves state as it is, or empties it.
LEMMA TrackedMoves ==
  ASSUME [Next]_vars
  PROVE  /\ \/ tracked' = tracked \/ tracked' = << >> \/ tracked' = NoState
            \/ tracked # NoState /\ tracked' = Reconciled(tracked, entries)
            \/ WriteDevice /\ tracked' = Reconciled(Prior, entries)
         /\ everDeclared \subseteq everDeclared'
  <1>1. CASE \E c \in Configs : StartApply(c)
    BY <1>1 DEF StartApply
  <1>2. CASE ReadStored \/ WriteOverlay \/ WriteDevice \/ FailCall
    BY <1>2 DEF ReadStored, WriteOverlay, WriteDevice, FailCall
  <1>3. CASE \/ Refresh \/ Import \/ Destroy \/ Edit \/ FinishAction \/ ActionFails \/ UNCHANGED vars
             \/ \E p \in Ports, mode \in Values \ {Zero} : InvokeAction(p, mode)
    BY <1>3 DEF Refresh, Import, Destroy, Edit, FinishAction, ActionFails, InvokeAction, vars
  <1> QED
    BY <1>1, <1>2, <1>3 DEF Next

\* What an apply plans is declared when it starts.
LEMMA PlannedStep ==
  ASSUME TypeOK, PlannedWasDeclared, [Next]_vars
  PROVE  PlannedWasDeclared'
  <1>1. ASSUME NEW c \in Configs, StartApply(c) PROVE PlannedWasDeclared'
    <2>1. \A i \in DOMAIN c : c[i] \in ConfigBlock
      BY ConfigsAssumption
    <2>2. \A i \in DOMAIN c : c[i].index \in Ports
      BY <2>1 DEF ConfigBlock
    <2> QED
      BY <1>1, <2>2 DEF StartApply, PlannedWasDeclared
  <1>2. CASE ReadStored \/ WriteOverlay \/ WriteDevice \/ FailCall
    BY <1>2 DEF ReadStored, WriteOverlay, WriteDevice, FailCall, PlannedWasDeclared
  <1>3. CASE \/ Refresh \/ Import \/ Destroy \/ Edit \/ FinishAction \/ ActionFails \/ UNCHANGED vars
             \/ \E p \in Ports, mode \in Values \ {Zero} : InvokeAction(p, mode)
    BY <1>3 DEF Refresh, Import, Destroy, Edit, FinishAction, ActionFails, InvokeAction,
                vars, workVars, PlannedWasDeclared
  <1> QED
    BY <1>1, <1>2, <1>3 DEF Next

\* A reconciliation fills in no member but op_mode, which a tracked block always has.
LEMMA ReconciledDeclares ==
  ASSUME NEW prior \in Seq(TrackedBlock), NEW stored \in Entries, NEW D,
         \A i \in DOMAIN prior : prior[i].set[OpMode] # Null,
         \A i \in DOMAIN prior, m \in Members : prior[i].set[m] # Null => <<prior[i].index, m>> \in D
  PROVE  /\ \A i \in DOMAIN Reconciled(prior, stored) : Reconciled(prior, stored)[i].set[OpMode] # Null
         /\ \A i \in DOMAIN Reconciled(prior, stored), m \in Members :
              LET b == Reconciled(prior, stored)[i] IN b.set[m] # Null => <<b.index, m>> \in D
  <1> SUFFICES ASSUME NEW i \in DOMAIN prior
               PROVE  LET b == Reconciled(prior, stored)[i] IN
                      /\ b.set[OpMode] # Null
                      /\ \A m \in Members : b.set[m] # Null => <<b.index, m>> \in D
    BY ReconciledBlocks
  <1> DEFINE b == Reconciled(prior, stored)[i]
  <1>1. /\ b.index = prior[i].index
        /\ stored[b.index] = NoEntry => b = prior[i]
        /\ stored[b.index] # NoEntry => \A m \in Members :
             b.set[m] = ReconciledMember(prior[i].set, stored[b.index], m)
    BY ReconciledBlocks
  <1>2. prior[i].index \in Ports
    <2>1. prior[i] \in TrackedBlock
      OBVIOUS
    <2> QED
      BY <2>1 DEF TrackedBlock
  <1> HIDE DEF b
  <1>3. CASE stored[b.index] = NoEntry
    BY <1>1, <1>3, PortsAssumption DEF b
  <1>4. CASE stored[b.index] # NoEntry
    <2>1. stored[b.index] \in [Members -> Values]
      BY <1>1, <1>2, <1>4 DEF Entries, Entry
    <2>2. b.set[OpMode] # Null
      BY <1>1, <1>4, <2>1, PortsAssumption DEF ReconciledMember
    <2>3. \A m \in Members : b.set[m] # Null => prior[i].set[m] # Null
      BY <1>1, <1>4 DEF ReconciledMember
    <2> QED
      BY <1>1, <2>2, <2>3 DEF b
  <1> QED
    BY <1>3, <1>4

\* So state tracks what was declared, and nothing else.
LEMMA TrackedStep ==
  ASSUME TypeOK, PhaseOK, PlannedWasDeclared, OpModeTracked, TrackedWasDeclared, [Next]_vars
  PROVE  OpModeTracked' /\ TrackedWasDeclared'
  <1>1. everDeclared \subseteq everDeclared' /\ entries \in Entries
    BY TrackedMoves DEF TypeOK, Entries
  <1>2. CASE tracked' = tracked \/ tracked' = << >> \/ tracked' = NoState
    BY <1>1, <1>2 DEF OpModeTracked, TrackedWasDeclared
  <1>3. CASE tracked # NoState /\ tracked' = Reconciled(tracked, entries)
    <2>1. tracked \in Seq(TrackedBlock)
      BY <1>3 DEF TypeOK
    <2> QED
      BY <1>1, <1>3, <2>1, ReconciledDeclares DEF OpModeTracked, TrackedWasDeclared
  <1>4. CASE WriteDevice /\ tracked' = Reconciled(Prior, entries)
    <2>1. phase # "idle"
      BY <1>4 DEF WriteDevice
    <2>2. Prior \in Seq(TrackedBlock)
      BY <2>1, PriorBlocks
    <2>3. /\ \A i \in DOMAIN Prior : Prior[i].set[OpMode] # Null
          /\ \A i \in DOMAIN Prior, m \in Members :
               Prior[i].set[m] # Null => <<Prior[i].index, m>> \in everDeclared
      <3>1. CASE creating
        <4>1. \A i \in DOMAIN config : config[i] \in ConfigBlock
          BY <2>1, ConfigsAssumption DEF PhaseOK
        <4>2. \A i \in DOMAIN config : /\ Planned(config[i]).index = config[i].index
                                       /\ Planned(config[i]).set[OpMode] # Null
          BY <4>1, PlannedBlock
        <4> QED
          BY <2>1, <3>1, <4>2, PriorBlocks DEF PlannedWasDeclared
      <3>2. CASE ~creating
        BY <2>1, <3>2, PriorBlocks DEF OpModeTracked, TrackedWasDeclared
      <3> QED
        BY <3>1, <3>2
    <2> HIDE DEF Prior
    <2> QED
      BY <1>1, <1>4, <2>2, <2>3, ReconciledDeclares DEF OpModeTracked, TrackedWasDeclared
  <1> QED
    BY <1>2, <1>3, <1>4, TrackedMoves

\* A block just reconciled says of its port what the controller holds.
LEMMA ReconciledTruth ==
  ASSUME NEW prior \in Seq(TrackedBlock), NEW stored \in Entries
  PROVE  \A i \in DOMAIN Reconciled(prior, stored) : LET b == Reconciled(prior, stored)[i] IN
           stored[b.index] # NoEntry =>
             \A m \in Members : b.set[m] # Null => b.set[m] = stored[b.index][m]
  BY ReconciledBlocks DEF ReconciledMember

\* State is brought up to date by applies and refreshes, and whoever writes the array after that
\* marks it stale.
LEMMA TruthStep ==
  ASSUME TypeOK, PhaseOK, StateTellsTruth, [Next]_vars
  PROVE  StateTellsTruth'
  <1> USE DEF StateTellsTruth
  <1>1. entries \in Entries
    BY DEF TypeOK, Entries
  <1>2. CASE WriteDevice
    <2>1. Prior \in Seq(TrackedBlock) /\ tracked' = Reconciled(Prior, entries) /\ entries' = entries
      BY <1>2, PriorBlocks DEF WriteDevice, ctlVars
    <2> QED
      BY <1>1, <2>1, ReconciledTruth
  <1>3. CASE Refresh
    <2>1. tracked \in Seq(TrackedBlock) /\ tracked' = Reconciled(tracked, entries) /\ entries' = entries
      BY <1>3 DEF Refresh, TypeOK, ctlVars
    <2> QED
      BY <1>1, <2>1, ReconciledTruth
  <1>4. CASE WriteOverlay \/ Destroy \/ Edit \/ FinishAction
    BY <1>4 DEF WriteOverlay, Destroy, Edit, FinishAction
  <1>5. CASE Import
    BY <1>5 DEF Import
  <1>6. CASE UNCHANGED <<entries, tracked, fresh>>
    BY <1>6
  <1>7. CASE ReadStored \/ FailCall \/ (\E c \in Configs : StartApply(c))
             \/ ActionFails \/ UNCHANGED vars
             \/ \E p \in Ports, mode \in Values \ {Zero} : InvokeAction(p, mode)
    <2> HIDE DEF StateTellsTruth
    <2>1. UNCHANGED <<entries, tracked, fresh>>
      BY <1>7 DEF ReadStored, FailCall, StartApply, ActionFails, InvokeAction, vars, ctlVars
    <2> QED
      BY <1>6, <2>1
  <1> QED
    BY <1>2, <1>3, <1>4, <1>5, <1>7 DEF Next

-----------------------------------------------------------------------------
(* The invariant holds.                                                      *)

\* Nothing is tracked and nothing is under way.
LEMMA PortsStart == Init => PortsInv
  <1> SUFFICES ASSUME Init PROVE PortsInv
    OBVIOUS
  <1>1. << >> \in Seq(Call) /\ 0 \in 0..MaxApplies /\ 0 \in 0..MaxEdits
    BY PortsAssumption
  <1>2. TypeOK
    BY <1>1, Zenon DEF Init, TypeOK
  <1>3. PhaseOK /\ SnapshotOK /\ CallsOK /\ LandingOK
    BY DEF Init, PhaseOK, SnapshotOK, CallsOK, LandingOK
  <1>4. PlannedWasDeclared /\ OpModeTracked /\ TrackedWasDeclared /\ StateTellsTruth
    BY DEF Init, PlannedWasDeclared, OpModeTracked, TrackedWasDeclared, StateTellsTruth
  <1> QED
    BY <1>2, <1>3, <1>4 DEF PortsInv

\* Applies, refreshes, edits and actions, in any order, keep array, state and work consistent.
THEOREM PortsInductive == Spec => []PortsInv
  <1>1. PortsInv /\ [Next]_vars => PortsInv'
    <2> SUFFICES ASSUME PortsInv, [Next]_vars PROVE PortsInv'
      OBVIOUS
    <2> USE DEF PortsInv
    <2>1. TypeOK' /\ PhaseOK' /\ SnapshotOK' /\ CallsOK' /\ LandingOK'
      BY TypeOKStep, PhaseStep, SnapshotStep, CallsStep, LandingStep
    <2>2. PlannedWasDeclared' /\ OpModeTracked' /\ TrackedWasDeclared' /\ StateTellsTruth'
      BY PlannedStep, TrackedStep, TruthStep
    <2> QED
      BY <2>1, <2>2
  <1> QED
    BY <1>1, PortsStart, PTL DEF Spec

\* Every variable of the port overrides keeps its type.
THEOREM TypeCorrect == Spec => []TypeOK
  <1>1. PortsInv => TypeOK
    BY DEF PortsInv
  <1> QED
    BY <1>1, PortsInductive, PTL

\* An apply that nobody disturbs and that succeeds has put every declared member of every
\* port on the controller, however its blocks were grouped into calls.
THEOREM DeclaredMembersLand == Spec => []DeclaredLands
  <1>1. PortsInv => DeclaredLands
    <2> SUFFICES ASSUME PortsInv, outcome = "applied", undisturbed, NEW p \in Indexes(config)
                 PROVE  Landed(p)
      BY DEF DeclaredLands, Landed
    <2>1. groups = << >>
      BY DEF PortsInv, PhaseOK
    <2> QED
      BY <2>1 DEF PortsInv, LandingOK, Pending
  <1> QED
    BY <1>1, PortsInductive, PTL

\* State never asserts of a reported port what the controller does not hold.
THEOREM StateIsTrue == Spec => []StateTellsTruth
  <1>1. PortsInv => StateTellsTruth
    BY DEF PortsInv
  <1> QED
    BY <1>1, PortsInductive, PTL

\* State never gains a port or a member that no apply declared.
THEOREM TrackedDeclared == Spec => []TrackedWasDeclared
  <1>1. PortsInv => TrackedWasDeclared
    BY DEF PortsInv
  <1> QED
    BY <1>1, PortsInductive, PTL

\* A call changes a member of the array it has read only where the block that speaks for the
\* port declares it, whatever was written to the array since.
THEOREM OnlyDeclaredMembersWritten == Spec => OnlyDeclaredWritten
  <1> DEFINE Only == WriteOverlay =>
                       \A p \in Ports, m \in Members :
                         Held(entries', p, m) # Held(snapshot, p, m) =>
                           /\ p \in Indexes(config)
                           /\ m \in DeclaredFields(Governing(config, p))
  <1>1. PortsInv => Only
    <2> SUFFICES ASSUME PortsInv, WriteOverlay, NEW p \in Ports, NEW m \in Members,
                        Held(entries', p, m) # Held(snapshot, p, m)
                 PROVE  p \in Indexes(config) /\ m \in DeclaredFields(Governing(config, p))
      OBVIOUS
    <2> DEFINE g == Head(groups)
    <2>1. /\ config \in Seq(ConfigBlock) /\ g \in Call /\ CallOK(g, config) /\ snapshot \in Entries
          /\ entries' = Overlaid(snapshot, g)
      BY HeadCall DEF WriteOverlay, PortsInv
    <2>2. \E b \in g.blocks : b.index = p /\ m \in g.fields
      BY <2>1, OverlaidHolds
    <2> QED
      BY <2>1, <2>2 DEF CallOK
  <1> HIDE DEF Only
  <1>2. Spec => [][Only]_vars
    BY <1>1, PortsInductive, PTL DEF Spec
  <1> QED
    BY <1>2 DEF OnlyDeclaredWritten, Only

\* An action that nobody wrote past changes the mode of its port and nothing else.
THEOREM ActionIsLocal == Spec => ActionKeepsTheRest
  <1> DEFINE Keeps == FinishAction /\ entries = action.read =>
        /\ Held(entries', action.port, PoeMode) = action.mode
        /\ \A p \in Ports, m \in Members :
             <<p, m>> # <<action.port, PoeMode>> => Held(entries', p, m) = Held(entries, p, m)
  <1>1. PortsInv => Keeps
    <2> SUFFICES ASSUME PortsInv, FinishAction, entries = action.read PROVE Keeps
      OBVIOUS
    <2>1. /\ entries \in Entries /\ action.port \in Ports /\ action.mode \in Values
          /\ entries' = MergedPort(entries, action.port, action.mode)
      BY DEF PortsInv, TypeOK, Entries, FinishAction
    <2>2. PoeMode \in Members
      BY PortsAssumption
    <2> QED
      BY <2>1, <2>2, MergedHolds
  <1> HIDE DEF Keeps
  <1>2. Spec => [][Keeps]_vars
    BY <1>1, PortsInductive, PTL DEF Spec
  <1> QED
    BY <1>2 DEF ActionKeepsTheRest, Keeps
=============================================================================
