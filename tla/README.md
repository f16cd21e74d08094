# Formal models of terraform-provider-unifi

TLA+ models of the parts of this provider whose correctness depends on order,
failure and what the controller does in between; TLC configurations that check
them on small instances; and proofs, checked by TLAPS, of what the engine, the
waits, the adoption of devices, the port overrides, the client groups, the
composite settings and the cycle of every attribute promise for every instance.

Paths below are relative to the repository. Every definition of a model is
mapped to the source lines it stands for in `PROJECT.json` ("map").

## 1. The system

The provider lets Terraform manage a UniFi controller. Terraform core runs the
CRUD calls of different resources concurrently (ten at a time by default), each
call in a goroutine and with a deadline. The controller is shared with an
administrator who uses its own UI, with other Terraform runs, and with devices
that join and leave. Almost nothing is transactional: the controller has
neither versions nor conditional writes, some of its objects can only be
replaced whole, and some writes are accepted and dropped.

| Component | Source | State it keeps | Operations | What is hard |
|---|---|---|---|---|
| Resource engine | `internal/resourcekit/resource.go` | Terraform state and identity of one object; nothing of its own between calls | Create, Read, Update, Delete, ImportState, each with Prefetch/BeforeSend/AfterReceive hooks | partial failure between controller and state, stale plans, edits by others, explicit zeros, values the answer does not echo |
| Fields | `internal/resourcekit/field.go`, `object_field.go`, `scattered_object_field.go`, `conditional_field.go` | none | SetInPlan, ToSDK, ToModel, CopyPlanToState; conformance checks | null, unknown and zero must not be confused; objects are merged member by member |
| Surfaces | `internal/generated/resource_*`, `unifi/*_descriptor*.go`: 36 resources and the 33 sections of `unifi_setting` | none beyond the engine's | a schema and a Spec each: data, conversions of objects; WAN adopts on conflict | schema and descriptor are written apart and must agree; derived and conditional wires |
| Composite | `internal/resourcekit/composite.go`, `spec_section.go`, `unifi/setting_*` | one Terraform state over a document per section | write all, read all, fetch-then-patch | failure between documents, Extras that share a model with their primary document |
| Wait and retry | `unifi/util/retry` | two goroutines, a channel of one, a cancel channel, counters | WaitForStateContext, RetryContext | timeouts racing answers, abandoned goroutines |
| Device adoption | `unifi/device_descriptor.go` | the device's id in state | look up, adopt, wait, write, forget | devices that vanish, adoptions whose answer is lost, creates that are run again |
| Device ports | `unifi/device_descriptor.go`, `device_port_overrides_grouping.go` | the blocks in state, the controller's array | grouped overlay calls, reconcile | an array that is replaced whole, several calls per apply |
| `unifi_port` action | `unifi/port_action.go` | none | read, merge, write back | a second writer of the port array |
| Client groups | `unifi/client_descriptor.go`, `provider.go` | `clientGroupMu`, shared by all applies of a process | Prefetch, resolve, create on miss, re-rate | concurrent applies, checks outside the lock |
| Radio table | `unifi/device_radio_table_grouping.go` | the controller's array | grouped overlay calls, sanitise | as device ports |
| Data sources, list resources | `unifi/*_data_source.go`, `internal/resourcekit/list.go` | none beyond a call (`client_list` caches group names while it reads) | read | nothing that is shared |
| Generators and audits | `cmd`, `provider-codegen`, `internal/providercompiler`, `internal/testaudit`, ... | none | offline | sequential text processing |
| Test harness | `internal/controllertest` | a child process and its events | start, await, stop | shutdown order |

The components meet as follows. A surface is a `Spec` (fields, hooks, backend)
that the engine interprets; `unifi_device` and `unifi_client` attach to the
engine through BeforeSend and AfterReceive; `unifi_device` waits through the
retry package; `unifi_setting` runs many Specs under a Composite instead of the
engine. A plan is made by Terraform core from the schema, and executed by the
engine from the Spec: nothing but the conformance checks ties the two. All meet
at the controller.

What makes each one correct:

* engine: an object Terraform made is never lost in silence; state and identity
  name the same object; an apply that reports success recorded the plan and
  reached the controller; a refresh after it finds no difference; an edit of
  what the configuration does not name survives.
* wait: success is earned, absence is tolerated as configured, a timeout hides
  no success, the caller always returns, a nil error is safe to act on.
* surfaces: one apply is enough and the next plan is empty; an explicit zero
  lands; nothing Unknown enters state; what nobody configured is left alone.
* adoption: nothing is adopted twice, nothing is written before the device is
  connected, every apply ends.
* ports: only declared members are written and all of them land; state neither
  lies about the controller nor claims undeclared ports.
* groups: one group per name; a client is never sent with an empty or foreign
  id; re-rating keeps other limits; every apply ends.
* settings: applied values land in all documents; state tells the truth after
  partial failures; only managed attributes enter state; nothing the plan
  leaves out is disturbed.

## 2. The modules

| Module | Models | Checked by | Proofs |
|---|---|---|---|
| `ResourceKit` | the engine, one resource and its controller objects | `MCResourceKit` with `MCKitPost`, `MCKitAdopt` | `ResourceKit_proofs` |
| `ResourceLifecycle` | what the engine promises, without its calls | through `ResourceKitRefines` | through `ResourceKit_proofs` |
| `ResourceKitRefines` | the refinement mapping from the one to the other | `MCKitPost` | `ResourceKit_proofs` |
| `RetryWait` | `WaitForStateContext` | `MCRetryWait` with `MCRetryWait`, `MCWaitCancel` | `RetryWait_proofs` |
| `RetryContext` | `RetryContext`, EXTENDS `RetryWait` | through `DeviceAdoption` | through `DeviceAdoption_proofs` |
| `DeviceAdoption` | the life of a `unifi_device`, EXTENDS `RetryContext` | `MCDeviceAdoption` | `DeviceAdoption_proofs` |
| `DevicePorts` | `port_override` of `unifi_device`, and the `unifi_port` action | `MCDevicePorts` with `MCPorts`, `MCPortsTracked` | `DevicePorts_proofs` |
| `ClientGroups` | concurrent applies of `unifi_client` | `MCClientGroups` with `MCGroups`, `MCGroupsRerate` | `ClientGroups_proofs` |
| `Composite` | `unifi_setting` | `MCComposite` | `Composite_proofs` |
| `Subsequences` | the members of a sequence at given places, which the two before use for the Go loops that filter a slice | through them | `Subsequences_proofs` |
| `SurfaceKit` | what an attribute, a field and a member are; every kind of field, the conversions, the conformance checks | through `AttributeCycle` | through `AttributeCycle_proofs` |
| `SettingSurfaces`, `NetworkSurfaces`, `PolicySurfaces`, `DeviceSurfaces` | the 69 surfaces: schema, fields and members as rows | through `AttributeCycle` | through `AttributeCycle_proofs` |
| `AttributeCycle` | one attribute or member, of each shape the surfaces serve, through plan, apply and refresh | `MCAttributeCycle` with `MCSurfaces`, `MCSurfacesReadOnly` | `AttributeCycle_proofs` |

A definition introduced by a comment "Mutant of X" is never part of a
specification. It is X with a plausible bug, kept beside it; putting it in X's
place makes a named property fail, which shows that the property watches the
code (`PROJECT.json`, "mutants").

### ResourceKit

State: `objects` and `used` are the controller; `sid`, `sval` and `ident` are
the Terraform state (id, the other attributes, identity); `pc`, `cfg`, `plan`,
`work`, `target`, `resp` are the locals of the call in flight; the rest is
history that only properties read. An attribute has a kind instead of a type:
mapped by a Field (perhaps read-only, perhaps reading zero as null), derived by
hooks, or owned by hooks; Computed or not; with an encoder that cannot emit it
empty (`Slots`), or a controller that drops it (`Discards`: in the proofs only,
no run has one). This is what the
engine tells apart. A value is one of `Values`, `Null`, or `Unknown`.

Each handler is cut exactly at its remote calls: `BeginCreate`, `CreateHook`,
`CreatePost` or `CreatePatch`, `FinishCreate` or `CreateTailFails`;
`ReadObject`, `ReadNotFound`, `ReadFails`, `FinishRead`; `BeginUpdate`,
`UpdateHook`, `UpdateSend`, `FinishUpdate`; `BeginDelete`, `DeleteSend`,
`DeleteLost`, `Release`; `ImportById`, `ImportByName`. `Abort` is every early
error return, lost answer, expired context or killed process. `AdminEdit` and
`AdminDelete` may fall between any two steps. Terraform core's part, the plan,
is external: `Plans` gives a configured attribute its value, a Computed one the
state's value or Unknown, any other one null.

### ResourceLifecycle, ResourceKitRefines

`ResourceLifecycle` has no calls, attributes or plans: only which objects the
controller holds (`present`), which one Terraform tracks and whether an import
has confirmed it, the object a create is making, the objects given up
(`loose`), and the verdict of the last operation. An object that is made is
recorded or its loss is reported, a tracked resource never moves to another
object, and it is let go only when the object is gone, on request, or when the
import that named it fails. `ResourceKitRefines` maps the engine's variables to
these; `ImplementsLifecycle` says that every step of the engine is a step of it
or leaves it unchanged.

### RetryWait, RetryContext, DeviceAdoption

`conf` is what the waiter was called with, one of `Confs`. One variable per
local of the two goroutines, plus `resCh` (room for one
result) and `cancelCh`. Durations are left out: a timer that is set may fire at
any later moment, so every property holds for any choice of Delay, Timeout,
intervals and back-off. What Refresh answers is one of five answers. After a
cancellation the first pause, which has no duration, may still be taken, as
Go's `select` chooses at random among ready cases. `RetryContext` is the same
loop with f in the place of Refresh, f's error under its mutex, and the
variable its caller captured (`current` in `deviceKitBeforeSend`).

`DeviceAdoption` runs both waits where the code calls them. `step` is the phase
of the apply: `LookUp` is the f of the lookup's RetryContext and `Poll` the
Refresh of `deviceWaitForState`, now against a device that really has a state,
so what they may answer is what the controller holds. `Adopt` may take effect
without being answered; the create that failed is run again by `StartCreate`.
`Informs` and `Meddle` are the device and the administrator, between any two
steps. `Update`, `ReadDevice` and `Destroy` complete the resource's life: a
device that is forgotten and adopted anew has a new id.

### DevicePorts

`entries` is the controller's array, `tracked` the attribute in state (a
sequence of blocks, duplicates included), `config`, `groups` and `snapshot` the
apply in flight. `StartApply` is the pure part of BeforeSend: deduplication,
dropping of blocks that declare nothing, grouping by declared members; each of
the three keeps some of a sequence in its order (`At` of `Subsequences`). A call
is the two steps `ReadStored` and `WriteOverlay` the SDK makes of it.
`WriteDevice` is the masked write that follows, with AfterReceive's reconcile.
The forty-odd members are three kinds: Optional strings, Optional+Computed, and
`op_mode` with its default. The `unifi_port` action is the other writer: it
reads the array, merges one member of one port and writes it back, with an
apply possibly in between.

### ClientGroups

Several applies share `userGroups`, `memberGroups` and `lock`
(`clientGroupMu`). Each has its request, its two listings, and what it
resolved. One action is one call to the controller; `Locked` branches of the
code are the `pc` values between `LockFor...` and the step that sets `lock`
back. Group names generated from rates are the rates themselves.
`OthersDelete` and `OthersCreate` are other hands.

### Composite

`exposed` tells whether this controller is new enough to take the documents of
the Extras; `stored` and `present` are the documents it holds, `todo` the rest of the
loop in flight, `model` what has been read so far, `prior` what AfterReceive is
given. Sections, documents and attributes are related by `SectionOf` and
`DocOf`; an attribute may be nulled when it is not managed (`Conditioned`),
never read back (`Restored`: `ssh_password`), planned from state (`Kept`), or
read as null when zero (`NullZero`). `FetchDoc`/`PutDoc` are the backend of
`usg_geo`. What a section's Write leaves on the plan is overwritten by the read
that follows and is left out, and so is the site.

### SurfaceKit and the surfaces

A surface declares its attributes twice. The schema says who may give a value,
its type and default, and what plans it; the descriptor gives the field that
carries it to the SDK struct and back. Both are rows here: `Attr` (presence,
type, traits, names) and `Fields` (kind, traits, names). The rows of a surface
are grouped by what they have in common, and each group names its source lines:
the generated schema, the generated field list, the hand-written fields that
override it, and the Encode and Decode of each object. What an attribute is
called, described and validated with is left out, except whether its validators
or its type refuse the zero, because that is what decides whether a zero can be
told from an absence.

The values of an attribute are null, unknown, the zero of its type, and two
others. `SurfaceKit` gives, for each kind of field, what ToSDK puts in the
struct for each of them (`Seeded`, `Pointer`, `Value`) and what ToModel makes of
a zero and of an absent key; `DerivedElide`, `ElideAgrees`, `OmitZeroAgrees`
(with `NestedOmitZeroAgrees` for the members of objects) and `ZeroReadAgrees` are
the conformance checks of the descriptor tests. The check of OmitZero knows
nothing of the schema: it goes by the patterns the controller publishes. A field
it would speak of has the trait `refused`, and `pinned` where
`knownOmitZeroGaps` keeps what it reports. A field without `refused` passes,
whatever its validators say: the minimum data rates of a WLAN, for which the
controller publishes no pattern (`wlan_descriptor.go:435-441`), and the sections
`guest_access`, `lcm` and `syslog` of `unifi_setting`, over which no test runs
the check.

A member of an object has a row of its own, named `object.member`, with one of
seven kinds: assigned as a value; a pointer where known; a pointer whatever it
is (`bare`, where an Unknown becomes a pointer to zero); one of a number of
slots that are emptied; a string that is not written when empty; and two the
provider makes up itself. Its traits say whether its wire is in the mask with
the object or only with itself (`whole`), and what Decode keeps of the prior
object (`merged`, `mergedWhole`, `keepNull`, `carried`).

### AttributeCycle

`Shapes` is what two attributes must share to be treated alike, over all the
surfaces; for attributes whose elision a descriptor author chooses, also every
choice the conformance checks accept. A behaviour follows one shape: `MakePlan`
is Terraform core with the framework's and the provider's plan modifiers, on a
refreshed state; `Apply` is Create or Update as the surface's mode makes it (a
whole POST, a masked write, a WAN created or adopted, a section of
`unifi_setting`), then the answer, the merge, and core's verdict on the result.
`Reconfigure` and `AdminEdit` fall in between, also between plan and apply. For
a member, `given` says whether the plan has the object it is in, and an answer
may be `quiet`: without that object. The position of a member (in an object
with a struct of its own, in a scattered one, in an object inside an object, in
the elements of a list) decides how plan and answer are merged.

`ShapesAssumption` is what the rows have in common and the proofs rest on, in five
parts: where an attribute may be and of what kind (`Placed`), which kinds put a
value of their own in the place of a Bool (`StandsInForBool`), how a number whose
zero is refused is left out (`RefusedIsUnset`), what an attribute nobody has to
give reads its zero as (`OptionalReadsNull`), and which traits go together
(`KeptAsRead`). It is a statement about the rows and no others, has no constant
in it, and TLC evaluates it, so that its evaluation settles it: a row that is
added and breaks it stops the run. It says nothing of the elisions that the
conformance checks would accept: for those the proofs use the checks.
`ServedAssumption` and `CensusAssumption` say that what is served passes the
check of OmitZero, as the census test does.

The engine's control is one step per call here, and its data complete; in
`ResourceKit` it is the other way round. `Composite` and `DevicePorts` have the
remaining interleavings.

## 3. What the runs show

| Run | Question | Bounds, and why they are enough |
|---|---|---|
| `kit_post` | engine, POST create | two attributes: the name, and a Computed one with an unwritable empty slot; two values, two ids (one taken beforehand: id reuse and name clashes happen), one edit or deletion; a POST whose explicit zero the controller replaces by a default, and an update that cannot empty the slot, both happen |
| `kit_adopt` | engine, masked create, hooks | three attributes, all Computed: one with a field, one derived by hooks whose zero reads as null, one owned by a hook that writes it itself; one object to adopt, one edit, before or after the refresh that a plan is made from |
| `wait` | the waiter | sixteen ways of waiting: a state or an absence, once or twice, one or two absences tolerated, with and without pending states; each counter both resets and overflows, and an absence or an unexpected state falls between two targets |
| `device_adoption` | lookup, adoption and wait composed; liveness | any initial device, two applies (a create run again after any failure, or an update after a create), one adoption or forgetting by the administrator, one absence tolerated (so the counter overflows) |
| `device_ports` | ports and the action | every initial array, nine configurations (see `MCDevicePorts`), two applies (the second after a first that failed anywhere), one edit, one action |
| `client_groups` | groups, safety and liveness | two applies, five kinds of request, every initial set of groups, failures anywhere, one creation or deletion by others |
| `surfaces` | every shape of attribute and member | all 69 surfaces (hundreds of shapes, every value), two edits, one reconfiguration, any number of plans and applies: a change before, between or after the plan and the apply that meets it, and one both before and after the plan, which one case of `OnlyUnsetIsRefused` needs |
| `settings` | settings | six documents, six attributes covering each kind, a controller with and one without the Extra documents, three configurations, one edit, any number of applies, imports and failures |

Read-only attributes are in no run of the engine (in `surfaces` they are), a third attribute beside two ids
multiplies the states; the proofs cover them.

Only edits, applies of one device and groups created by others are bounded;
applies, reads, imports, failures and retries of a resource are not, so runs
explore sequences of any length. Bounds are constants named `Max...`, and stand
in the guards of the actions they bound.

`CHECK_DEADLOCK FALSE` is used where the system comes to rest: a wait that has
returned, applies that have ended, and edits that are used up.

`kit_post` also shows the refinement: with ids clashing and reused, answers lost
and imports by name, the engine is an implementation of `ResourceLifecycle`.

What the properties of the engine except is what the code does:

* `StateMirrorsController`: two diffs do come back after an apply that reported
  success, and the history `unsaid` names the attributes. A POST cannot say an
  explicit zero that `omitempty` drops, so the state has the zero where the
  controller has its default, until a second apply says it under a mask. An
  emptied slot is taken out of the mask (`UnwritableWires`,
  `network_descriptor.go:695`), so the controller keeps what it held, and the
  diff returns after every refresh.
* `AdminEditSurvives`: an edit that a refresh has read survives every apply,
  whatever the attribute is, unless the configuration sets it. One that falls
  between the refresh and the apply is put back where the plan carries the old
  value from state (an Optional+Computed attribute nobody configures) and where
  a hook derives the wire from the model (`Claimed`).

The properties of the ports say nothing of a lost update either:
`OnlyDeclaredWritten` compares with the array the call has read. A member that
somebody changed between the call's read and its write is put back
(`device_port_overrides_grouping.go:84-95`), as is what was written under the
`unifi_port` action (`ActionKeepsTheRest`); the controller offers no version to
compare with.

`surfaces` says of every attribute the provider serves, and of every elision the
conformance checks would let through: nothing Unknown reaches state, but for
what the merge of plan and answer does not reach (`UnknownOnlyUnmerged`); no
number goes out as a zero its own validator refuses (`RefusedZeroNotSent`),
unless an author had left OmitZero off where the check of it is silent, as of a
WLAN's minimum data rates: that would pass every check and be refused;
Terraform core refuses the result of an apply only in the cases the property
names (`OnlyUnsetIsRefused`); once an apply has succeeded the next plan is empty
and what was asked for is held (`Converges`); and what nobody configured is only
ever put back to what the plan read (`UnsetIsOnlyPutBack`). The exceptions the
properties name are what the code does, and each is worth knowing:

* An Optional attribute that is taken out of the configuration while the
  controller keeps its value is refused ("produced an unexpected new value"),
  and so is an attribute of a section that is new in the configuration when its
  plan modifier keeps the null it had, and one planned as null from state that
  somebody gives a value before the apply.
* A zero of a section whose field elides it reads back as null and is refused
  (an empty `ssh_keys`).
* A zero that is configured for an attribute that forces replacement is never
  sent, as a create leaves zeros with `omitempty` out.
* `egress_qos.priority` of a WAN has a default of 0 and a validator of 1 to 7:
  `egress_qos = { enabled = true }` sends the 0
  (`wan_resource_gen.go:236-239`).
* Plan and answer are merged one level deep (`scattered_object_field.go:215`).
  On a create of a network with `dhcp_server.boot = { enabled = true }` the
  computed `filename` and `server` are Unknown in the plan and in the state
  after it, which core refuses: what the comment over CopyPlanToState says the
  merge is there to prevent. The elements of a list are the same
  (`outlet_overrides` of a device has Optional+Computed members).
* WAN blocks and others keep the prior member where the answer leaves it out:
  a member that was cleared on the controller is hidden, and put back by the
  next update.

### Where the code and its documentation disagree

Each of these runs checks one property that states what a comment or document
says, and TLC shows the behaviour that contradicts it (`PROJECT.json`,
"findings", quotes the lines).

| Run | Property | What happens |
|---|---|---|
| `wait_cancel` | `CancelEndsTheLoop` | the goroutine can block for ever on its last send once the caller is gone |
| `ports_tracked` | `AppliedBlocksTracked` | an update that adds or drops a block records the old block set |
| `groups_rerate` | `RerateFromTheController` | re-rating from a listing made before the lock puts another apply's limit back |
| `surfaces_readonly` | `ReadOnlyIsNotPlanned` | `wlan_band` has a default and a read-only field: its plan is never written, and refused when the controller answers something else |

Others met on the way are visible in the models and have no run of their own:

* A port_override block for a port the controller does not report keeps Unknown
  members after a create (`Reconciled` of `DevicePorts`), and `qos_rate` of a
  client is copied whole with its Unknown members (`ClientGroups`).
* A WireGuard server whose private key is not in state (after an import, or when
  a generated key is not echoed) gets a new key with the next update of
  anything: BeforeSend generates one, and its wire is always in the mask
  (`vpn_server_descriptor.go:399-407`).
* `dhcp_server.start` and `stop` that are Unknown go out as "" on a create, and
  the members of `provider_capabilities` of a WAN as 0, also where an existing
  WAN is adopted.
* DHCP guarding does not clear the slots a shorter list leaves;
  `smartq = { enabled = false }` without rates is taken for silence, so the prior
  block stays and drift is hidden; a fifth DNS server of a VPN server is dropped
  without a word; `destination.ip` of a traffic route is read back with the
  addresses before the ranges, whatever order was configured.
* The refused delete of a WAN reports success and the WAN stays.
* `wlan_descriptor.go:449-451` says the validator of the minimum data rates still
  lists 0; it no longer does (`wlan_resource_gen.go:246`, `:258`), so their rows
  refuse the zero.
* `state.go:31` says the target has to occur "continuously". Only a pending state
  starts the count over (`Counted`), so with `ContinuousTargetOccurence = 2` a
  wait succeeds on target, absent, target, and without Pending states on target,
  any other state, target. `SuccessIsEarned` says "in a row" only where the code
  does it: where once is enough, as in every wait of the provider, and for an
  absence with Pending states. `CHANGELOG.md:82` says drift on a declared
  member is seen on refresh, but a port the controller no longer reports keeps
  its block as it was (`Reconciled`). `CHANGELOG.md:469` says an apply names only
  the fields the configuration sets, but a section dropped from the
  configuration is planned from state and written again (`Planned`, `Mask`).

### Fairness

Safety runs assume none. `RetryWait!FairSpec`: goroutines run and timers fire
(weak fairness of the producer's scheduling steps, of the caller's receives,
and of both timers); nothing is assumed of Refresh, so `CallerReturns` holds
with a Refresh that hangs for ever. `DeviceAdoption!AdoptionFairSpec` adds that
the calls of the apply itself (AdoptDevice, the write) are answered or fail, as
each runs under a context with a deadline; a lookup and a poll may hang, because
the waits around them have timeouts. `AnsweringSpec` adds that Refresh answers,
and `CancelEndsTheLoop` fails even so. `ClientGroups!FairSpec`: each apply is
weakly fair; every call to the controller returns because its context has a
deadline, and a mutex that is released is taken by a waiter. An apply has
finitely many steps, so weak fairness is enough for the waiter: the lock, once
free with one waiter left, stays free until taken.

## 4. What is proved

Every safety invariant and every action property that a passing run checks is a
theorem, and so is the refinement. The theorems hold for every value
of the constants that satisfies the module's assumptions, which TLC evaluates in
every run: any number of attributes, objects, ports, members, blocks, documents,
concurrent applies, edits and changes of the configuration. The assumptions say what the constants are, that
special values such as `Null` are none of the ordinary ones, and what the code or
the controller guarantees of them: that an id names one group
(`GroupsAssumption`), that both configurations of an adoption's waits are among
those the waiter is proved for (`AdoptionAssumption`), and what the rows of the
surfaces have in common (`ShapesAssumption`, section 2).

| Module | Theorem | Statement |
|---|---|---|
| `ResourceKit_proofs` | `TypeCorrect` | `Spec => []TypeOK` |
| | `NoOrphan` | `Spec => []NoSilentOrphan` |
| | `IdentityStable` | `Spec => []IdentityMatchesState` |
| | `EditsSurvive` | `Spec => []AdminEditSurvives` |
| | `NoPerpetualDiff` | `Spec => []StateMirrorsController` |
| | `PlanPrevails` | `Spec => PlanWins` |
| | `ApplyReaches` | `Spec => AppliedReachesController` |
| | `EngineImplementsLifecycle` | `Spec => ImplementsLifecycle` |
| `RetryWait_proofs` | `TypeCorrect` | `Spec => []TypeOK` |
| | `SuccessEarned` | `Spec => []SuccessIsEarned` |
| | `NotFoundTolerated` | `Spec => []NotFoundIsTolerated` |
| | `TimeoutHonest` | `Spec => []TimeoutIsHonest` |
| `DeviceAdoption_proofs` | `FindIsSafe` | `AdoptionSpec => []FoundIsSafeToUse` |
| | `WrittenOnlyConnected` | `AdoptionSpec => []ConnectedBeforeWritten` |
| | `AdoptedOnce` | `AdoptionSpec => NeverAdoptedTwice` |
| `DevicePorts_proofs` | `TypeCorrect` | `Spec => []TypeOK` |
| | `DeclaredMembersLand` | `Spec => []DeclaredLands` |
| | `StateIsTrue` | `Spec => []StateTellsTruth` |
| | `TrackedDeclared` | `Spec => []TrackedWasDeclared` |
| | `OnlyDeclaredMembersWritten` | `Spec => OnlyDeclaredWritten` |
| | `ActionIsLocal` | `Spec => ActionKeepsTheRest` |
| `ClientGroups_proofs` | `TypeCorrect` | `Spec => []TypeOK` |
| | `OneGroupCreated` | `Spec => []OneGroupPerName` |
| | `NamedGroupsWritten` | `Spec => []RefsAreTheNamed` |
| | `RerateIsPartial` | `Spec => RerateKeepsTheRest` |
| `Composite_proofs` | `TypeCorrect` | `Spec => []TypeOK` |
| | `PlannedValuesLand` | `Spec => []AppliedLands` |
| | `StateIsTrue` | `Spec => []StateTellsTruth` |
| | `OnlyManagedTracked` | `Spec => []ManagedOnly` |
| | `WritesStayInPlan` | `Spec => UnplannedUntouched` |
| `AttributeCycle_proofs` | `TypeCorrect` | `Spec => []TypeOK` |
| | `UnknownOnlyWhereUnmerged` | `Spec => []UnknownOnlyUnmerged` |
| | `RefusedZeroKept` | `Spec => []RefusedZeroNotSent` |
| | `OnlyUnsetRefused` | `Spec => []OnlyUnsetIsRefused` |
| | `PlansConverge` | `Spec => []Converges` |
| | `UnsetOnlyPutBack` | `Spec => UnsetIsOnlyPutBack` |

Hardly any of the safety properties is inductive alone. Each module proves one
inductive invariant (`IInv`, `WaitInv`, `AdoptInv`, `PortsInv`, `GroupsInv`,
`CompositeInv`, `CycleInv`), checked with TLC on small instances before it was proved, by a
lemma per conjunct (in `RetryWait` and `DeviceAdoption`: per process) with a
step per action; its theorem, named `Inductive`, `...Inductive` or
`CycleInvariant`, is cited by all the others of the module. What an invariant adds says why the code is right.

The engine, `IInv`:

* `PhaseOK`: what the locals of a call are in each phase: `target` names an
  object that exists or existed, `cfg` and `plan` agree, a call that is idle
  has empty locals.
* `UpdateOK`: in an update `target` is the tracked id, and `work` is the state
  with the plan applied. Without it the mask of an update could not be related
  to the state it was planned from.
* `OwnedOK`: what Terraform wrote is tracked, leaked with a reported failure,
  released on request, or the target of a create between its write and its
  record; `NoSilentOrphan` follows.
* `AnswerOK`: while the object is undisturbed, the answer in flight is what the
  controller holds, and each planned value has been stored unless it could not
  be said (`unsaid`) or was dropped. `StateMirrorsController` and
  `AppliedReachesController` follow.

The refinement maps each call of the engine to one step of `ResourceLifecycle`
or to none. It needs one fact more, `LooseOK`: an object whose import has been
confirmed is none of those given up. Without it a delete of a resource that was
leaked, released or both before could let go of something twice.

The wait, `WaitInv`: `LoopOK` and `CountOK` tie the counters to the history of
answers, and a loop that goes on to counters below their limits. `DeliveryOK`
follows the judged result to the caller: it is in the channel or received, never
both, never replaced by a later one, and the loop has then closed. `CallerOK`
says what the caller knows; `SuccessIsEarned` is a consequence of the four.

The adoption, `AdoptInv`: both waits run in the variables of `RetryWait`, so
`WaitInv` is one conjunct and every step of a wait is one lemma already proved.
`LookupOK` and `FindOK` add what a lookup that returned nil left behind,
`WaitedOK` that the answer which ended the wait as a success is the state last
seen.

The ports, `PortsInv`: `CallsOK` says that each block of each call still to make
is the one that speaks for its port, and that the mask is exactly what it
declares; `LandingOK` that what is declared has landed or has a call to come, so
that no call undoes an earlier one; `OpModeTracked` that a block in state has an
`op_mode`, the one member a reconcile would otherwise fill in unasked.

The groups, `GroupsInv`: `SeenOK` is the heart of the double check. Under
`clientGroupMu` every group the provider made was seen by the listing made under
that lock, so what the holder still misses nobody has created. `NamedOK` and
`QosOK` carry names with ids from the listings to the write.

The composite, `CompositeInv`: `WrittenOK` and `PresentOK` for the part of the
loop that is done, by the documents that are left in `todo`; `ReadOK` and
`ModelOK` the same for the reading; `StateOK` says that what state holds can be
read again, without which a refresh could lose an attribute (`ManagedOnly`).

The attribute cycle, `CycleInv`: `RangeOK` says that an attribute holds what its
type can hold, `TrackedOK` when a section is in state, `PlanOK` that the plan in
hand is the one `Planned` makes of this state, and `OwnOK` that a Bool that the
kind of its field would answer for is never null once it is tracked. The other
properties each add an invariant of their own:

* `ZeroFree` (`RefusedZeroNotSent`): a number that refuses zero is zero nowhere,
  neither planned, nor in state, nor on the controller. Of the elisions a
  descriptor author might choose, `OmitZeroAgrees` is what says that the field
  leaves the number out (`RefusedLeftOut`); the conformance check is used, not
  assumed away, and where it is silent the theorem is too (`Unchecked`).
* `SeenOK` (`OnlyUnsetIsRefused`): a plan that no edit came after is made of what
  a refresh would still read. It rests on `ReadTwice`: to read again what was
  read changes nothing, whatever prior value a field keeps, carries or merges.
  `OptionalElides` uses `ElideAgrees` as above.
* `SettledOK` (`Converges`): what the applies since the last change have settled,
  which is what a plan asks for but for a zero, and with a second apply a zero
  too.
* `ReadMeansHeld` and `OnlyPutBack` (`UnsetIsOnlyPutBack`): an attribute nobody
  gives is planned as what was read, and what was read is what is held, unless a
  default was read or a prior value kept.

An attempt to prove `OnlyUnsetIsRefused` found it too strong: when an attribute of
a section that is no longer declared is cleared on the controller, read as null
and planned so, and then set to its zero before the apply, core refuses the zero
the apply reads back. That takes two edits, and `surfaces` allowed one. The
property names the case now, and the run allows two.

`Subsequences_proofs` holds what the ports and the composite need of a filtered
sequence (`AtProperties`): it has exactly the members at the places kept, in
their order. The provers cannot use the induction theorems of the library, which
take an operator; the lemmas argue instead from the least length at which they
would fail (`LeastNatural`). `SelectSeq` and `SetToSortSeq` are recursive in the
library and opaque to the provers; that is why the models use `At`.

Left to TLC:

* Liveness under fairness (`CallerReturns`, `ApplyEnds`, `EveryApplyEnds`), and
  anything with ENABLED: no installed prover handles them.
* The rows themselves: the provers take from them what `ShapesAssumption` says,
  which TLC evaluates row by row.
* The findings, which are counterexamples.

## 5. What is not modelled

* The site attribute, imports that name a site, `timeouts`, and the wording of
  diagnostics.
* Validators and types beyond whether they refuse the zero: pure functions on
  single values.
* Members whose conversion depends on other attributes, and which have no row:
  `dns` and `wireguard.public_key` of a VPN server (clearing of slots, a derived
  key); the configuration file, DNS servers and keys of a VPN client;
  `matching_target_type` of a firewall policy; `smartq.enabled` of a WAN; the
  schedule of a WLAN; the peers of BGP; `power_sources`. `port_override` and
  `qos_rate` have modules of their own.
* `radio_table`: its writes and reconcile are those of `port_override` over
  another array, with a sanitising of single values.
* The lookup of a WAN by `wan_networkgroup`, and its refused delete.
* Which wires a VLAN-only network keeps from its prior object
  (`networkPreserveVLANOnly`), and the defaults of a DHCP server that is left
  out on a create.
* The other fields of the masked write at the end of a `unifi_device` apply,
  beside ports and adoption: they are rows of `DeviceSurfaces`.
* `op_mode` equal to its default on an aggregating port (`CHANGELOG.md:182`
  documents it).
* Data sources and list resources: they change no state.
* Two Terraform runs over the same object: to one of them, the other is the
  administrator.
* The SDK (`go-unifi`) and the controller are external; they are modelled from
  how the code uses them and from the measurements its comments report.
* The provider compiler, the generators, the audits and the test harness: they
  are offline or test support. What the generators produce, the schemas and
  descriptors, is what the surfaces model.

## 6. Plan

Done, in this order: the engine with its proofs; wait and retry; device ports;
client groups; composite settings; the abstract life cycle and its refinement;
device adoption; the `unifi_port` action; the kinds of field; the surfaces and
the attribute cycle; the members of objects.

Proved, in this order: the engine; the waiter and the adoption on top of it; the
refinement; the client groups; the device ports, for which filtering was restated
as `At`; the composite; the attribute cycle, for which what its rows have in
common was stated as `ShapesAssumption`.

Next:

1. Lemmas that document an operator more than a theorem needs, such as what
   `Grouped` and `Reconciled` return.
2. `radio_table` beside `DevicePorts`, and the WAN's lookup, if the model grows
   again; the proofs of the ports would carry over to the first.
