# TLA+ verification of the imt multi-touch driver

This directory holds TLA+ models of `src/imt.c`, the FreeBSD driver for
I2C HID multi-touch digitizers that follow the Windows-compatible layout.
It also holds the TLC configurations that check the models on small
instances and TLAPS proofs of the main decoder properties.

## The system

`imt.c` has five parts that run in this order:

1. **imt_probe** calls `wmt_hid_parse(NULL, ...)` on the report
   descriptor. It only decides whether the device is a touchscreen or
   touchpad (probe mode).
2. **imt_attach** calls `wmt_hid_parse(sc, ...)` again (attach mode).
   This fills the device profile in the softc: the location of every
   channel for every finger (`sc->locs`), the axis ranges (`sc->ai`), the
   pinned input report id, the report sizes (`wmt_hid_report_size`), and
   the feature report ids.
   Attach then does three more things:
   - it refines the slot count from the Contact Count Maximum feature
     report (`wmt_cont_max_parse`);
   - it fetches the THQA certificate;
   - on touchpads it sets the input mode (`imt_set_input_mode`).

   Finally it installs the interrupt handler and registers the evdev
   device.
3. **imt_intr** runs for every input report, with `sc->lock` held. It
   decodes up to `nconts_per_report` contacts into evdev multi-touch
   protocol B events. Hybrid delivery spreads one frame over several
   reports, tracked by the counter `sc->nconts_todo`. The handler calls
   `evdev_sync` when the counter reaches 0.
4. **imt_ev_open / imt_ev_close** start and stop interrupt delivery.
5. **imt_detach** frees evdev and removes the handler.

`src/hidbus.h` only declares types and prototypes of the HID bus. It holds
no code that changes state.

## Modules

| module | models | source |
|---|---|---|
| `ImtTables` | the channel enum and its aliases, `wmt_hid_map`, `enum imt_input_mode` | imt.c 89-198 |
| `ImtIntr` | `imt_intr` with the evdev slot allocator as its environment | imt.c 423-545 |
| `MC_ImtIntr` | the constants of the decoder instances | |
| `ImtIntr_proofs` | inductive invariant and theorems about `ImtIntr` | |
| `HidParse` | `wmt_hid_parse` (both passes, validation, profile) and `wmt_hid_report_size` | imt.c 552-835 |
| `MC_HidParse` | descriptor builders and the descriptor sets of the runs | |
| `HidParse_proofs` | inductive invariant and theorems about `HidParse` | |
| `ImtAttach` | `imt_probe`, `imt_attach` (with `wmt_cont_max_parse`, the THQA fetch, `imt_set_input_mode`), `imt_ev_open`/`imt_ev_close`, `imt_detach` | imt.c 211-420, 836-880 |
| `MC_ImtAttach` | the Input Mode length sets of the attach runs | |
| `ImtAttach_proofs` | inductive invariants and theorems about `ImtAttach` | |
| `HybridFrame` | abstract hybrid delivery machine of spec section 4.6 | spec 4.6 |
| `ImtIntrRefinement` | proof that `ImtIntr` refines `HybridFrame` | |

### ImtIntr

The device profile that attach built is given as constants:
- `Caps`;
- `Locs[c]`, the channels with a non-empty location for contact `c`;
- `NContsPerReport`;
- `ReportId`;
- `SlotMax`, which is `ai[WMT_SLOT].max`.

The variables are these:
- `nconts_todo`;
- the loop state of one call: `intr` ("idle" or "loop"), `cont` and
  `cont_count`;
- the evdev state, covered in the next paragraph;
- history variables for the properties: `sync`, `last`, `frameTotal`,
  `frameDone` and `seen`.

The evdev state is `tid[s]` and `dist[s]`, the `ABS_MT_TRACKING_ID` and
`ABS_MT_DISTANCE` of each slot, plus `changed`, the slots whose tracking id
changed since the last sync. evdev is not part of this repository, so
`ResolveSlot` (`evdev_get_mt_slot_by_tracking_id`) is modelled from its
contract in spec section 6. It returns the slot already tracking the id.
Otherwise it returns the lowest free slot that was not changed in this
frame. Otherwise it returns -1.

One call of `imt_intr` is three kinds of step:
- `IntrIgnore` is the early return for a foreign report id.
- `IntrStart` covers everything before the loop: the Contact Count decode,
  the counter replacement at lines 471-472 and the `MIN` at line 486.
- `IntrContact` is one iteration of the loop. It decodes the fields,
  resolves the slot, then either skips the contact on overflow, pushes it
  as active, or releases the slot.
- `IntrFinish` is the decrement and the `evdev_sync`.

These steps are forced to follow each other: `intr` is a program counter,
and no other step is enabled while a call is in its loop. The lock
(`mtx_assert`) and the transport's serialized delivery (spec section 5)
justify this. The data of contact `c` is read once, by iteration `c`, so
each `IntrContact` step chooses it from `ContactData`. That gives the same
behaviours as storing the whole report, with far fewer states. Position,
pressure and geometry values never change control flow and are left out.

Under the mapping `HF` of `ImtIntr`, `frameTotal` is the abstract
`total`. Inside the contact loop, the contacts of the current call count as
already taken: `AbsTodo = nconts_todo - cont_count` and
`AbsDone = frameDone + (cont_count - cont)`. So `IntrStart` is the abstract
`Begin` (non-zero Contact Count) or `Continue` (zero count while contacts
remain). A zero count while idle, the contact steps, `IntrFinish` and a
foreign report are stutters.

### HidParse

The descriptor is a sequence of items with these fields: kind, collection
level, usage (a name), report id, the `WMT_HI_ABSOLUTE` flag, logical range
and location (pos, size, count). In the real driver the parser
`hid_get_item` produces them, and it lives outside the repository.
- A pass with kind mask `k` sees the collections, the ends of collections
  and the data items of kind `k` (`Seen`). The cursor `i` is the position
  in the descriptor where `hid_get_item` resumes, and `NextSeen(d, k, i)`
  is the least position at or after `i` that the pass sees. A minimum of a
  finite set is something TLAPS can reason about. The earlier formulation
  with `SelectSeq` was recursive and could not be.
- One step is one iteration of a `while (hid_get_item())` loop:
  `FeatureItem` in pass 1 and `InputItem` in pass 2.
- The code between the loops is `FeatureEnd`, including the
  `cont_max_rid == 0` early return.
- The validation and the profile written after pass 2 are `InputEnd`.
- `probe` chooses between the NULL softc of `imt_probe` and the softc of
  `imt_attach`.
- A location copied into the softc is the index of the item it came from
  (`NoLoc = 0` for a zeroed one). The properties can then relate a profile
  entry to its item.
- `InputData` is the `if ... break` chain of `case hid_input` (lines
  694-761), written as an IF chain in the code's order: not pinned,
  Contact Count, Scan Time, the skip test, then the binding loop.
- `BindChannel` is the inner `for` loop (lines 728-758). A channel is
  taken when its caps bit is set (probe) or when the contact's location
  has a non-zero size (attach, line 742). The item binds to the lowest
  channel of its usage that is not taken.

### ImtAttach

The profile that `wmt_hid_parse` stores is a record `sc` chosen from
`Profiles`. Its fields are the device type, the lengths and ids of the
Contact Count Maximum and THQA feature reports, the Input Mode report
length, and the slot range `ai[WMT_SLOT].max`. `NoProfile` is the zeroed
softc.

The variables are these:
- `pc`, the newbus call in progress;
- `slotMax`;
- `lock`, the state of `sc->lock`;
- `handler` and `running`, the iichid interrupt handler and delivery;
- `evdev`, the state of `sc->evdev`;
- `opened`, which is true while an evdev client holds the device open;
- `xfer`, the bytes of `sc->buf` the last feature transfer used.

Each step of `imt_attach` is one action, error path included:
- `AttachParse`: the descriptor fetch, `mtx_init` and the parse;
- `AttachContMax`: the Contact Count Maximum fetch and `wmt_cont_max_parse`;
- `AttachThqa`: the THQA fetch;
- `AttachMode`: `imt_set_input_mode` on touchpads;
- `AttachRegister`: `iichid_intr_setup`, evdev allocation and
  `evdev_register_mtx`.

A transport answer is an `ok` chosen with `\E`. Every failure sets
`pc = "failed"` after doing what `imt_detach` does at that point.

iichid and evdev are outside the repository and are modelled from their
contracts:
- `intr_setup` installs the handler without starting it.
- `intr_start` and `intr_stop` start and stop delivery.
- `intr_unsetup` removes the handler.
- a client opens only a registered device, and the first open calls
  `ev_open`.
- `evdev_free` of a device a client holds open calls `ev_close`.

Detach is three steps, in the order of the code:
1. `DetachFree`;
2. `DetachUnsetup`;
3. `DetachDestroy`.

`EvOpen` and `EvClose` interleave with all of them.

## Runs

| run | cfg | expect | checks |
|---|---|---|---|
| intr_safety | MC_ImtIntr.cfg | pass | TypeOK, FrameAccounting, TrackedMeansTouching, HybridFrameRefined |
| intr_in_range | MC_ImtIntr_range.cfg | violation | InRangeAlternates |
| intr_idle_sync | MC_ImtIntr_sync.cfg | violation | SyncOnlyEndsFrame |
| parse_profile | MC_HidParse.cfg | pass | AcceptedProfileUsable, AxesFromFirstContact |
| parse_fingers | MC_HidParse_fingers.cfg | violation | NContsWithinTable |
| parse_rid0 | MC_HidParse_rid0.cfg | violation | FieldsCoResident |
| parse_mode | MC_HidParse_mode.cfg | violation | InputModeInConfig |
| parse_zero_size | MC_HidParse_zero.cfg | violation | AcceptedProfileUsable |
| attach_lifecycle | MC_ImtAttach.cfg | pass | TypeOK, DeliveryOnlyToLiveDevice, FailureReleases, SlotRangeFits, FetchesWithinBsize |
| attach_mode_overflow | MC_ImtAttach_mode.cfg | violation | BufAccessWithinBsize |
| attach_evdev_leak | MC_ImtAttach_leak.cfg | violation | EvdevReleased |

`HybridFrameRefined` is `HF!Spec`: every decoder behaviour, seen through
the mapping, is a behaviour of `HybridFrame`. `TrackedMeansTouching` is
stated with the history variable `seen`: for each contact id, whether the
last row decoded with that id was active in the sense of spec section 4.6
(tip switch set and, when the device has the field, confidence set).
`InRangeAlternates` compares the first row of a report with the slot's
value from the report before, so its counterexample spans two reports.
`FetchesWithinBsize` says that the last transfer before the Input Mode
step (the Contact Count Maximum or THQA fetch) fits `sc->buf`.

**Decoder bounds**:
- 2 contacts per report and 2 evdev slots.
- 3 contact ids, so a third contact overflows the slots.
- Contact Count values 0..3, so a frame of 3 contacts takes two reports
  and a zero-count continuation exists.
- A second report id, to exercise the foreign-report filter.
- Tip and confidence values {0, 1}, so every branch of the liveness test
  is taken.

The run reaches 12,030 distinct states.

**Parser bounds**: 2592 initial descriptors, made from these variations:
- three placements of a configuration collection;
- touchscreen or touchpad;
- one or two fingers, the second in the same or in another report;
- four finger channel sets: basic, with confidence, width and height,
  with two X and two Y items, and missing the contact id;
- Contact Count Maximum 0, 1 and 3 (3 is above `MAX_MT_SLOTS` = 2);
- two feature report ids.

Each descriptor is checked in probe and attach mode. All their data items
have size 8. The four violation runs each use one descriptor shaped to
reach the disagreement:
- three fingers (parse_fingers);
- a first finger before the report id is set (parse_rid0);
- a vendor collection with its own Input Mode after the configuration
  collection (parse_mode);
- a finger whose X item has report size 0 (parse_zero_size).

**Attach bounds**:
- `MAX_MT_SLOTS` = 2 and `WMT_BSIZE` = 4.
- Report lengths {0, 3, 5}: absent, fitting and too long for the buffer.
- Input Mode lengths {0, 3, 5}, so the unguarded Input Mode transfer
  overflows in the life-cycle run too; `FetchesWithinBsize` must hold
  regardless. The overflow run uses {0, 5} to show finding 6.
- Two feature report ids, so THQA can share the Contact Count Maximum
  report.
- Feature values 0..3, so the zero and the above-`MAX_MT_SLOTS` cases of
  `wmt_cont_max_parse` are reached.

The run reaches 5813 distinct states.

`CHECK_DEADLOCK FALSE` is set for the attach runs because the life cycle
ends: a device is rejected, fails to attach, or is detached.

`CHECK_DEADLOCK FALSE` is set for the parser because `wmt_hid_parse`
returns: every behaviour ends in `pc = "done"`. The decoder runs check for
deadlock.

**Fairness.** No run checks a liveness property, so no fairness is
assumed.

## Findings

1. **In-range output is a level, not a toggle** (intr_in_range). Line 523
   sends `!slot_data[WMT_IN_RANGE]` of the current report. Spec sections
   4.6 and 8 require a value that alternates between reports of a contact
   that stays in range. TLC finds two consecutive reports whose first row
   carries the same in-range contact: it keeps its slot, and the second
   report sends the same `ABS_MT_DISTANCE` as the first.
2. **Sync on an idle zero-count report** (intr_idle_sync). With
   `nconts_todo == 0`, a Contact Count of 0 processes nothing, and then
   line 543 calls `evdev_sync` anyway. Spec section 4.6 calls this a no-op.
3. **Out-of-bounds read of `sc->locs`** (parse_fingers). Fingers beyond
   `MAX_MT_SLOTS` are not stored (line 723) but are counted, and line 818
   sets `nconts_per_report = cont`. With 3 fingers and `MAX_MT_SLOTS` = 2,
   imt_intr reads `sc->locs[2]` when a report announces 3 contacts.
4. **Report id 0 is also "unpinned"** (parse_rid0). Items with report id 0
   are bound to the profile, and then the pinned id moves to a later
   report. The profile mixes two reports, against spec section 4.3.
5. **`conf_coll` is never cleared** (parse_mode). The clear at lines
   631-632 is after a `break`. A later Input Mode feature outside the
   configuration collection replaces the real one (spec section 9 raises
   the question).
6. **The Input Mode length check never fires** (attach_mode_overflow).
   Line 864 tests `rlen == 0 && rlen > WMT_BSIZE`, which is always false.
   An Input Mode report longer than `WMT_BSIZE` is read into and written
   from `sc->buf` past its end.
7. **evdev leaks when registration fails** (attach_evdev_leak). When
   `evdev_register_mtx` fails (line 401), attach removes the handler and
   destroys the lock, but it never calls `evdev_free` on the
   `evdev_alloc` of line 374. newbus does not call `imt_detach` after a
   failed attach, so the evdev device is never freed.
8. **A zero-size required field is accepted** (parse_zero_size). Line 742
   treats a location of size 0 as unbound. Yet the zero-size X item is
   still bound and its caps bit set, and the probe set the bit from the
   usage alone. The attach call accepts the descriptor with a zero-width X
   location. Spec section 2 says absent locations have zero width and a
   profile is valid only if every required channel is present.

## Proofs

`ImtIntr_proofs` proves the following for every value of the constants
that satisfies the named assumptions of `ImtIntr`. The assumptions are
that `NContsPerReport` is in `1..MAX_MT_SLOTS`, that the slot range fits
the slots, and that the value sets are natural numbers with 0 a possible
contact id (the `bzero` of `slot_data`).

- `TypeCorrect`: `Spec => []TypeOK`.
- `FrameAccountingHolds`: `Spec => []FrameAccounting`.
- `TrackedMeansTouchingHolds`: `Spec => []TrackedMeansTouching`, with no
  hypothesis on the profile. The property speaks of decoded rows: a row
  whose profile lacks the contact id decodes as contact 0 (the `bzero` of
  line 491), and the property holds of that contact. Whether contact 0 is
  the real finger depends on the parser (hazard at line 771), which the
  decoder model does not see.

Neither invariant is inductive as it stands. Inside the contact loop, the
contacts of the current call are counted in `frameDone` but not yet
subtracted from `nconts_todo`. The strengthening `IInv` therefore states
three facts:
- in the loop, `frameDone + nconts_todo = frameTotal + cont` and
  `cont_count <= nconts_todo` (the `MIN` of line 486);
- when idle, `frameDone + nconts_todo = frameTotal`;
- a sync happens only in an idle state with `nconts_todo = 0`.

TLC checked `IInv` on the decoder instance before the proof was written.
The proof has one step per action, and under each one a step per
disturbed conjunct. Three lemmas support it:
- `NatMinExists`: a non-empty set of naturals has a least element, from
  `WFMin` and `NatLessThanWellFounded`. It gives the lowest free slot.
- `ResolveSlotType`: the allocator returns a slot or -1.
- `SlotDataType`: the decoded contact id is a contact id;
- `IsActiveTouching`: the liveness test of the code is the active
  contact of spec section 4.6.

The release theorem rests on two more facts, and the invariant
`TInv = IInv /\ TrackedUnique /\ TrackedMeansTouching` carries both:
- `TrackedUnique`: evdev holds each tracking id in at most one slot.
- `ResolveSlotTracked`: the lookup returns the slot that already tracks
  the id. So a release, or an overflowed lookup, can never leave a stale
  copy of the id in another slot.

`ImtIntrRefinement` proves `HybridFrameRefinedHolds`:
`Spec => HybridFrameRefined`. Three facts make up the argument:
- `Init` maps to `HF!Init`.
- Under `IInv`, every step maps to a `HybridFrame` step or a stutter
  (`StartRefines`, `ContactRefines`, `FinishRefines`).
- `IInv` is needed because the mapping subtracts `cont_count` from
  `nconts_todo`, and `cont <= cont_count <= nconts_todo` inside the loop.

`ImtAttach_proofs` proves the following under the assumptions of
`ImtAttach` (`MAX_MT_SLOTS` and `WMT_BSIZE` positive, lengths natural):
- `AttachTypeCorrect`;
- `DeliveryOnlyToLiveDeviceHolds`;
- `FailureReleasesHolds`;
- `SlotRangeFitsHolds`.

The inductive invariant `AInv` ties each resource to the phase of the life
cycle that owns it:
- lock and no handler between `mtx_init` and the registration;
- handler, lock and a registered evdev while attached;
- a freed evdev once detach began;
- delivery only while a client holds the device open, and an open only of
  a registered device.

None of the four properties is inductive on its own. A close or a detach
step needs the link from `running` through `opened` to a registered evdev.
`FetchesWithinBsizeHolds`: `Spec => []FetchesWithinBsize`, with no
assumption on the report lengths. Its invariant `FInv` adds to `AInv` that
nothing was transferred before the Contact Count Maximum fetch; the guards
of lines 347 and 359 then bound what the next two steps transfer. The
Input Mode transfer has no such bound (finding 6).

`HidParse_proofs` proves the following for every `MAX_MT_SLOTS` and every
set of descriptors of well-formed items (`MaxSlotsAssumption`,
`DescriptorsAssumption`):
- `ParseTypeCorrect`: `Spec => []TypeOK`. The parser's `TypeOK` is not in
  a run: the proof covers every descriptor.
- `AxesFromFirstContactHolds`: `Spec => []AxesFromFirstContact`.
- `AcceptedProfileBoundHolds`: `Spec => []AcceptedProfileBound`. An
  accepted profile binds each required channel of the first contact to an
  input item, has a Contact Count location, a contact per report and a
  slot range within `MAX_MT_SLOTS`. The sizes of those items are not
  guaranteed: that part of `AcceptedProfileUsable` is false (finding 8).

The inductive invariant is `PInv` (`PInvHolds`). None of the three
invariants is inductive on its own, because the accepting step
`InputEnd` only checks `caps` and `cont_count_found`. `PInv` carries what
the two loops establish about the softc while they run:
- `FirstContactBound`: in the attach pass, a channel other than
  orientation is in `caps` exactly when contact 0 has a location for it,
  and its range is that item's logical range;
- `LocsAreInputs`: every stored location, and the Contact Count location,
  is the index of an input item;
- a found Contact Count has a location;
- `AcceptedWritten`: an accepted profile is the one `InputEnd` wrote.
TLC checked `PInv` on the parse_profile instance before the proof was
written.

There is one lemma per action: `FeatureItemPInv`, `FeatureEndPInv`,
`InputItemPInv` and `InputEndPInv`. The input step rests on two lemmas about the binding
loop, `BindChannelAttach` and `BindChannelProbe`. `NextSeenRange` gives
the range of the cursor. The cursor is a least element
(`NextSeen`) rather than a `SelectSeq` filter: `SelectSeq` is recursive,
and a module with a theorem cannot reach a RECURSIVE operator.

These are only model-checked:
- `EvdevReleased`, which is false (finding 7);
- `AcceptedProfileUsable`, which adds non-zero sizes to
  `AcceptedProfileBound`: it holds on the size-8 descriptors of
  parse_profile and is false for a zero-size item (finding 8);
- the violation runs.

Three kinds of result are out of the prover's reach and would stay with
TLC: liveness under fairness (and ENABLED), induction over data (what a
recursive definition computes for every input), and anything in a module
that reaches a RECURSIVE operator. No liveness property is checked today:
the one loop of `imt_intr` advances `cont` on every path, including the
`continue` of an overflowed slot, so its termination is not a question
the model needs to ask.

## Not modelled yet, and the plan

- **Imt** will compose `HidParse` and `ImtIntr`, feeding the profile of
  an accepted descriptor into the decoder. This will show finding 3 on the
  decoder side, and the 0 contact id of later fingers that lack a
  required channel. Today `ImtAttach` chooses the profile from a set
  instead.
- A lost continuation report leaves its slots in evdev's changed set until
  the next sync (line 543). New contacts then cannot reuse them. The
  decoder model delivers every report, so no property covers this; the
  hazards list records it.
- Not modelled, because they are data only:
  - the `bzero` zero-extension of short reports;
  - uint32 wrap-around in `wmt_hid_report_size`;
  - a contact id of `0xFFFFFFFF` becoming tracking id -1;
  - an item usage equal to `WMT_NO_USAGE`.

  The hazards list in PROJECT.json records them.
