----------------------------- MODULE DevicePorts -----------------------------
(***************************************************************************)
(* The port_override blocks of unifi_device (unifi/device_descriptor.go,   *)
(* unifi/device_port_overrides_grouping.go).                               *)
(*                                                                         *)
(* The controller keeps one array of port entries per device and replaces  *)
(* it whole.  A practitioner declares some members of some ports.  An      *)
(* apply writes exactly the declared members, with one read-overlay-write  *)
(* call per distinct set of declared members, before the masked write of   *)
(* the device itself; state then keeps only the blocks it already tracked, *)
(* brought up to date from the controller's answer.                        *)
(*                                                                         *)
(* The unifi_port action (unifi/port_action.go) is a second writer of the  *)
(* same array: it reads the device, sets poe_mode of one port, and writes  *)
(* the array back whole, with nothing between it and an apply.             *)
(*                                                                         *)
(* Zero is the Go zero value a member has when it is left out of a struct: *)
(* the empty string, false, and for op_mode the default "switch".          *)
(***************************************************************************)
EXTENDS Naturals, Sequences, FiniteSets, SequencesExt, Subsequences

CONSTANTS
    Ports,          \* port indexes
    Members,        \* the writable members of a block
    TextMembers,    \* the Optional string members: empty reads back as null
    ComputedMembers,\* the Optional+Computed members: Unknown in a create's plan
    OpMode,         \* op_mode: defaulted, written only when not the default
    PoeMode,        \* poe_mode: what the unifi_port action sets
    Values, Zero,   \* what a member can hold on the controller
    Null, Unknown,  \* a member the configuration leaves out, one not resolved
    NoEntry,        \* the controller holds no entry for the port
    NoState,        \* the device is not in Terraform's state
    Configs,        \* the configurations: sequences of blocks
    MaxApplies,     \* bound: applies started
    MaxEdits        \* bound: edits made on the controller and unifi_port actions

ASSUME PortsAssumption ==
    /\ TextMembers \subseteq Members /\ ComputedMembers \subseteq Members
    /\ TextMembers \cap ComputedMembers = {}
    /\ OpMode \in Members \ (TextMembers \cup ComputedMembers)
    /\ PoeMode \in TextMembers
    /\ Zero \in Values /\ {Null, Unknown} \cap Values = {}
    /\ MaxApplies \in Nat /\ MaxEdits \in Nat
    /\ NoEntry \notin [Members -> Values]

ConfigBlock  == [index : Ports, set : [Members -> Values \cup {Null}]]
TrackedBlock == [index : Ports, set : [Members -> Values \cup {Null, Unknown}]]
Entry        == [Members -> Values]
Call         == [fields : (SUBSET Members) \ {{}}, blocks : SUBSET ConfigBlock]

ASSUME ConfigsAssumption == Configs \subseteq Seq(ConfigBlock)

VARIABLES
    entries,    \* the controller's stored array: port -> entry or NoEntry
    tracked,    \* the port_override attribute in state
    config,     \* the configuration of the apply under way (or the last one)
    phase,      \* "idle", "overlay" (groups still to send), "device" (masked write)
    creating,   \* the apply under way is a create
    groups,     \* the calls still to make
    snapshot,   \* what the call under way read before overlaying, or Null
    action,     \* the unifi_port action under way: its port, its mode and the array it read
    applies, edits,
    \* history, read by properties only
    fresh,      \* state was rebuilt from the controller and nothing changed since
    undisturbed,\* nobody else edited the controller since this apply started
    everDeclared, \* <<port, member>> pairs an apply has declared
    outcome     \* "none", "applied", "refreshed" or "failed"

ctlVars  == <<entries, edits, action>>
workVars == <<config, phase, creating, groups, snapshot>>
vars == <<entries, tracked, config, phase, creating, groups, snapshot, action,
          applies, edits, fresh, undisturbed, everDeclared, outcome>>

-----------------------------------------------------------------------------
(* What a configuration declares.                                          *)

\* A default op_mode stays off the wire, so it counts as not declared.
DeclaredFields(b) ==
    {m \in Members : b.set[m] # Null /\ (m = OpMode => b.set[m] # Zero)}

\* The elements of s whose key no earlier element has.
FirstsBy(s, Key(_)) ==
    At(s, {i \in DOMAIN s : \A j \in 1..(i - 1) : Key(s[j]) # Key(s[i])})

\* The block that speaks for port p: the last one naming it.
Governing(c, p) ==
    c[CHOOSE i \in DOMAIN c :
        c[i].index = p /\ \A j \in DOMAIN c : c[j].index = p => j <= i]

\* Mutant of Deduped: the first block of a port wins.
FirstWins(c) == FirstsBy(c, LAMBDA b : b.index)

Deduped(c) ==
    LET f == FirstsBy(c, LAMBDA b : b.index)
    IN  [k \in DOMAIN f |-> Governing(c, f[k].index)]

\* Mutant of WithFields: an empty mask is sent too.
WithEmptyMasks(c) == c

WithFields(c) == At(c, {i \in DOMAIN c : DeclaredFields(c[i]) # {}})

\* Mutant of Grouped: one call whose mask is the union of the declared members.
UnionMask(c) ==
    IF c = <<>> THEN <<>>
    ELSE <<[fields |-> UNION {DeclaredFields(b) : b \in Range(c)}, blocks |-> Range(c)]>>

Grouped(c) ==
    LET f == FirstsBy(c, DeclaredFields)
    IN  [k \in DOMAIN f |->
            [fields |-> DeclaredFields(f[k]),
             blocks |-> {b \in Range(c) : DeclaredFields(b) = DeclaredFields(f[k])}]]

DeclaredCalls(c) == Grouped(WithFields(Deduped(c)))

-----------------------------------------------------------------------------
(* The overlay the SDK makes of one call's blocks on the stored array.     *)
(* Every masked member goes out for every port of the call: one the block  *)
(* left out goes out as Zero.                                              *)
Wire(b, m) == IF b.set[m] = Null THEN Zero ELSE b.set[m]

Overlaid(stored, g) ==
    [p \in Ports |->
        IF \E b \in g.blocks : b.index = p
        THEN LET b == CHOOSE b \in g.blocks : b.index = p
             IN  [m \in Members |->
                    IF m \in g.fields THEN Wire(b, m)
                    ELSE IF stored[p] = NoEntry THEN Zero ELSE stored[p][m]]
        ELSE stored[p]]

(* State.                                                                  *)

Planned(b) ==
    [b EXCEPT !.set = [m \in Members |->
        IF b.set[m] # Null THEN b.set[m]
        ELSE IF m = OpMode THEN Zero
        ELSE IF m \in ComputedMembers THEN Unknown ELSE Null]]

\* Mutant of ReconciledMember: op_mode is kept as state has it.
OpModeKept(prior, e, m) == IF prior[m] = Null \/ m = OpMode THEN prior[m] ELSE e[m]

ReconciledMember(prior, e, m) ==
    IF m = OpMode THEN e[m]
    ELSE IF prior[m] = Null THEN Null
    ELSE IF m \in TextMembers /\ e[m] = Zero THEN Null ELSE e[m]

\* Mutant of Reconciled: the controller's whole array goes into state.
WholeArray(prior, stored) ==
    LET ps == SetToSeq({p \in Ports : stored[p] # NoEntry})
    IN  [i \in DOMAIN ps |-> [index |-> ps[i], set |-> stored[ps[i]]]]

\* Rebuilt from the blocks prior has, never from the controller's array.  A
\* port the controller does not report keeps its prior block.
Reconciled(prior, stored) ==
    [i \in DOMAIN prior |->
        IF stored[prior[i].index] = NoEntry THEN prior[i]
        ELSE [prior[i] EXCEPT !.set =
                [m \in Members |->
                    ReconciledMember(prior[i].set, stored[prior[i].index], m)]]]

\* What an apply reconciles from: the plan's blocks on a create; on an update
\* the blocks already in state, since ApplyPlanToState skips hook-owned ones.
Prior == IF creating THEN [i \in DOMAIN config |-> Planned(config[i])] ELSE tracked

-----------------------------------------------------------------------------
Init ==
    /\ entries \in [Ports -> Entry \cup {NoEntry}]
    /\ tracked = NoState
    /\ config = <<>> /\ phase = "idle" /\ creating = FALSE
    /\ groups = <<>> /\ snapshot = Null /\ action = Null
    /\ applies = 0 /\ edits = 0
    /\ fresh = FALSE /\ undisturbed = FALSE /\ everDeclared = {} /\ outcome = "none"

\* BeforeSend: dedupe, drop the empty blocks, group.  No declared member, no call.
StartApply(c) ==
    /\ phase = "idle" /\ applies < MaxApplies
    /\ applies' = applies + 1
    /\ config' = c
    /\ creating' = (tracked = NoState)
    /\ groups' = DeclaredCalls(c)
    /\ phase' = IF DeclaredCalls(c) = <<>> THEN "device" ELSE "overlay"
    /\ undisturbed' = TRUE
    /\ outcome' = "none"
    /\ everDeclared' = everDeclared \cup
           {x \in Ports \X Members :
               \E i \in DOMAIN c : c[i].index = x[1] /\ Planned(c[i]).set[x[2]] # Null}
    /\ UNCHANGED <<ctlVars, tracked, snapshot, fresh>>

\* One UpdateDevicePortOverrides call reads the stored array ...
ReadStored ==
    /\ phase = "overlay" /\ snapshot = Null
    /\ snapshot' = entries
    /\ UNCHANGED <<ctlVars, tracked, config, phase, creating, groups,
                   applies, fresh, undisturbed, everDeclared, outcome>>

\* ... and writes it back whole with the call's blocks laid over it.
WriteOverlay ==
    /\ phase = "overlay" /\ snapshot # Null
    /\ entries' = Overlaid(snapshot, Head(groups))
    /\ snapshot' = Null
    /\ groups' = Tail(groups)
    /\ phase' = IF Tail(groups) = <<>> THEN "device" ELSE "overlay"
    /\ fresh' = FALSE
    /\ UNCHANGED <<tracked, config, creating, applies, edits, action,
                   undisturbed, everDeclared, outcome>>

\* The masked device write answers with the device as it now stands.
WriteDevice ==
    /\ phase = "device"
    /\ tracked' = Reconciled(Prior, entries)
    /\ phase' = "idle"
    /\ fresh' = TRUE
    /\ outcome' = "applied"
    /\ UNCHANGED <<ctlVars, config, creating, groups, snapshot,
                   applies, undisturbed, everDeclared>>

\* Any call may be refused: the calls already made stay made, the rest are
\* dropped, state is left as it was.
FailCall ==
    /\ phase # "idle"
    /\ phase' = "idle" /\ groups' = <<>> /\ snapshot' = Null
    /\ outcome' = "failed"
    /\ UNCHANGED <<ctlVars, tracked, config, creating, applies, fresh,
                   undisturbed, everDeclared>>

Refresh ==
    /\ phase = "idle" /\ tracked # NoState
    /\ tracked' = Reconciled(tracked, entries)
    /\ fresh' = TRUE
    /\ outcome' = "refreshed"
    /\ UNCHANGED <<ctlVars, workVars, applies, undisturbed, everDeclared>>

\* An imported device starts with no block tracked.
Import ==
    /\ phase = "idle" /\ tracked = NoState
    /\ tracked' = <<>>
    /\ outcome' = "none"
    /\ UNCHANGED <<ctlVars, workVars, applies, fresh, undisturbed, everDeclared>>

\* Destroying releases the device; forget_on_destroy also makes the controller
\* forget it, with its ports.
Destroy ==
    /\ phase = "idle" /\ tracked # NoState
    /\ tracked' = NoState
    /\ \/ UNCHANGED entries
       \/ entries' = [p \in Ports |-> NoEntry]
    /\ fresh' = FALSE
    /\ outcome' = "none"
    /\ UNCHANGED <<edits, action, workVars, applies, undisturbed, everDeclared>>

\* An administrator changes a member, or resets a port, at any moment.
Edit ==
    /\ edits < MaxEdits
    /\ edits' = edits + 1
    /\ \E p \in Ports :
         /\ entries[p] # NoEntry
         /\ \/ entries' = [entries EXCEPT ![p] = NoEntry]
            \/ \E m \in Members : \E v \in Values \ {entries[p][m]} :
                 entries' = [entries EXCEPT ![p][m] = v]
    /\ fresh' = FALSE /\ undisturbed' = FALSE
    /\ UNCHANGED <<tracked, action, workVars, applies, everDeclared, outcome>>

-----------------------------------------------------------------------------
(* The unifi_port action.                                                  *)

\* Mutant of MergedPort: the entry of the port is made anew.
EntryAnew(stored, p, mode) ==
    [stored EXCEPT ![p] = [m \in Members |-> IF m = PoeMode THEN mode ELSE Zero]]

\* The port's entry with the mode set, or a new entry with nothing else in it.
MergedPort(stored, p, mode) ==
    [stored EXCEPT ![p] = [m \in Members |-> IF m = PoeMode THEN mode ELSE
                              IF stored[p] = NoEntry THEN Zero ELSE stored[p][m]]]

\* Invoke: the device is read ...
InvokeAction(p, mode) ==
    /\ action = Null /\ edits < MaxEdits
    /\ edits' = edits + 1
    /\ action' = [port |-> p, mode |-> mode, read |-> entries]
    /\ UNCHANGED <<entries, tracked, workVars, applies, fresh, undisturbed,
                   everDeclared, outcome>>

\* ... and written back, whatever was written since.
FinishAction ==
    /\ action # Null /\ action' = Null
    /\ entries' = MergedPort(action.read, action.port, action.mode)
    /\ fresh' = FALSE /\ undisturbed' = FALSE
    /\ UNCHANGED <<edits, tracked, workVars, applies, everDeclared, outcome>>

ActionFails ==
    /\ action # Null /\ action' = Null
    /\ UNCHANGED <<entries, edits, tracked, workVars, applies, fresh, undisturbed,
                   everDeclared, outcome>>

Next ==
    \/ \E p \in Ports, mode \in Values \ {Zero} : InvokeAction(p, mode)
    \/ FinishAction \/ ActionFails
    \/ \E c \in Configs : StartApply(c)
    \/ ReadStored \/ WriteOverlay \/ WriteDevice \/ FailCall
    \/ Refresh \/ Import \/ Destroy \/ Edit

Spec == Init /\ [][Next]_vars

-----------------------------------------------------------------------------
(* Properties.                                                             *)

\* Every variable holds a value the program can hold there.
TypeOK ==
    /\ entries \in [Ports -> Entry \cup {NoEntry}]
    /\ tracked = NoState \/ tracked \in Seq(TrackedBlock)
    /\ config \in Configs \cup {<<>>}
    /\ phase \in {"idle", "overlay", "device"} /\ creating \in BOOLEAN
    /\ groups \in Seq(Call)
    /\ snapshot = Null \/ snapshot \in [Ports -> Entry \cup {NoEntry}]
    /\ action = Null \/ action \in [port : Ports, mode : Values \ {Zero},
                                    read : [Ports -> Entry \cup {NoEntry}]]
    /\ applies \in 0..MaxApplies /\ edits \in 0..MaxEdits
    /\ fresh \in BOOLEAN /\ undisturbed \in BOOLEAN
    /\ everDeclared \subseteq Ports \X Members
    /\ outcome \in {"none", "applied", "refreshed", "failed"}

Held(stored, p, m) == IF stored[p] = NoEntry THEN Zero ELSE stored[p][m]
Indexes(blocks) == {blocks[i].index : i \in DOMAIN blocks}

\* Whatever the order and grouping of the calls, a call changes a member of the
\* array it has read only where the block that speaks for the port declares it:
\* not a neighbour in the call, not a duplicate block that lost, and no port
\* without a block.  Every other member it stores as it read it, and so undoes
\* an edit or an action that fell between its read and its write: the
\* controller offers no version to compare with.
OnlyDeclaredWritten ==
    [][WriteOverlay =>
        \A p \in Ports, m \in Members :
            Held(entries', p, m) # Held(snapshot, p, m) =>
                /\ p \in Indexes(config)
                /\ m \in DeclaredFields(Governing(config, p))]_vars

\* An action that nobody wrote past changes the mode of its port and nothing else, also on a
\* port the array had no entry for, and whatever an apply in progress has written before it.
\* (What another writer puts there between its read and its write, it undoes.)
ActionKeepsTheRest ==
    [][FinishAction /\ entries = action.read =>
        /\ Held(entries', action.port, PoeMode) = action.mode
        /\ \A p \in Ports, m \in Members :
             <<p, m>> # <<action.port, PoeMode>> => Held(entries', p, m) = Held(entries, p, m)]_vars

\* When an apply nobody disturbed succeeds, also after one that failed half
\* way, every member declared for a port holds its declared value: no call of
\* the sequence undoes what an earlier one wrote.
DeclaredLands ==
    outcome = "applied" /\ undisturbed =>
        \A p \in Indexes(config) :
            \A m \in DeclaredFields(Governing(config, p)) :
                Held(entries, p, m) = Governing(config, p).set[m]

\* State never asserts, for a port the controller reports, a value the
\* controller does not hold, right after an apply or a refresh: not even for a
\* duplicate block whose values were never sent, nor for an op_mode only the
\* default of the schema put there.
StateTellsTruth ==
    fresh /\ tracked # NoState =>
        \A i \in DOMAIN tracked : LET b == tracked[i] IN
            entries[b.index] # NoEntry =>
                \A m \in Members : b.set[m] # Null =>
                    b.set[m] = entries[b.index][m]

\* State never gains a port or a member no apply ever declared, however full
\* the controller's own array is: Terraform would plan to remove it.
TrackedWasDeclared ==
    tracked # NoState =>
        \A i \in DOMAIN tracked, m \in Members :
            tracked[i].set[m] # Null => <<tracked[i].index, m>> \in everDeclared

\* development/architecture.md says the blocks in state are rebuilt from the
\* managed ports carried in prior, "the state-with-plan on update": so after
\* an apply the ports tracked are the ports configured.
AppliedBlocksTracked ==
    outcome = "applied" => Indexes(tracked) = Indexes(config)
=============================================================================
