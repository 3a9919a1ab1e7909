# TLA+ models of the srsRAN MATLAB MEX bindings

This directory holds the formal models of the C++ MEX glue in `src/`. The
glue lets MATLAB call the srsRAN PHY blocks. Each MEX call is a sequential
handler (`MexFunction::method_step`). It does four things: it checks its
arguments, converts MATLAB tags and arrays into srsRAN configurations and
buffers, calls one srsRAN block, and copies the result back into MATLAB
arrays. Nothing in these files is concurrent. Nothing is kept across calls
except the block objects the constructors create. The hard parts are
therefore data-layout loops, unchecked shapes and counts, and error paths
that are fatal or silent when they should fail the call.

## 1. Inventory

| Part | Source | State | Operations |
|---|---|---|---|
| Channel-estimator MEX | `multiport_channel_estimator_mex.cpp` | config and DM-RS pattern, grid shape, `rx_ports`, `remaining_res`, `grid_view`, loop counters, resource grid, the shared `ch_estimate`, output array and info rows | argument check; config read; grid creation; port-count check; fill loop; pilot-count check; per-port compute and copy; metric rows and the aggregate row |
| PRACH detector MEX | `prach_detector_mex.cpp` | `detector_config` (restricted set, format), buffer dimensions, buffer capacity, fill counter, detection result, `outputs[0]` | argument check; restricted-set conversion and skip; format conversion; buffer creation by sample count; fill loop; detect; report of `preambles.back()` |
| Tag conversions | `matlab_to_srs.h` | none (pure) | restricted set (unknown value: `srsran_terminate`), preamble format (any tag but `"0"`..`"3"`: `OTHER`); modulation and base graph have no caller and are not modelled |
| PUSCH demodulator MEX | `pusch_demodulator_mex.h` | the four factories, the demodulator, the registered callbacks | `create_pusch_demodulator` (four factory calls and `->create()`); constructor: abort if the demodulator is null, else register `step`. `method_step` is declared but not in this repository. |
| srsRAN library | not in this repository | | resource grid, estimator, detector, buffers |

How the parts interact:
- The two modelled MEX handlers call the conversions of `matlab_to_srs.h`.
- The PRACH MEX uses the restricted-set and format conversions.
- The channel-estimator MEX uses the cyclic-prefix and subcarrier-spacing conversions. Those two are outside `src/` and are not modelled.
- Every handler hands its buffers to a library block whose result is an input of the model.

Hard behaviours, listed with their lines under `hazards` in PROJECT.json:
- The column-major fill loop of the estimator: an unsigned `remaining_res` and a span that is cut with `first`/`last`.
- A single `ch_estimate` object reused by every port.
- Port-index values that are never checked.
- Division by `nof_rx_ports`, which can be 0.
- An empty-list check that must come before `back()`.
- A restricted-set return that leaves the output unassigned.
- A fatal `srsran_terminate` in the restricted-set conversion, and a format conversion that cannot tell a short format from a tag that names no format.
- Unchecked factory results in the PUSCH constructor.

## 2. Modules

- **`MultiportChEstMex`** models `method_step` of the estimator MEX as a state machine on `pc`.
  - **Data abstraction:**
    - A grid cell holds the offset in the MATLAB array of the column that was written into it. `NoSlice` means not yet written.
    - An estimate is the port index it was computed for. `NoEst` means not computed.
    - The DM-RS pattern is reduced to its symbol set and the counts the pilot check reads (`rbCount` of `RBMask`, `reCount` of `REPattern`). `HoppingIndex` and `RBMask2` (lines 93-99) are copied into the pattern but never read back by `method_step`, so they are left out.
  - **Actions:**
    - `CheckArgs`: lines 35-64.
    - `Configure`: lines 70-132. It ranges over grid shapes (2-D, or 3-D with 0 or 2.. ports; at least one subcarrier and one symbol, see below), port-index lists and patterns, and over whether `create_resource_grid` returns a grid.
    - `FillSymbol`: one inner iteration of lines 133-141. It writes `view.off`, subtracts `nsc` from `remaining`, and moves the view to the last `remaining` elements.
    - `CheckPilots`: lines 143-167.
    - `ComputePort`: one iteration of lines 172-177. The shared estimate is overwritten, then appended to the output.
    - `WriteOutputs`: lines 179-208. `total` is the averaged record `info_out[nof_rx_ports]`: `"NaN"` when there is no port (0.0f/0.0f), else `"mean"`.
    - `Returned`: the stutter after the call returns or aborts.
- **`PrachDetectorMex`** models `method_step` of the PRACH MEX.
  - **Data abstraction:** samples are abstracted away. A buffer symbol is either filled or not. The detector's result is any list of distinct preamble indices.
  - **Actions:**
    - `CheckArgs`.
    - `ReadRestrictedSet`: lines 57-60.
    - `SkipRestrictedSet`: lines 133-135.
    - `CreateBuffer`: lines 61-92, including a buffer factory that returns no buffer. It records the raw `config.format` tag (`formatIn`) beside its conversion (`format`).
    - `FillSymbol`: one iteration of lines 94-101.
    - `Detect`: lines 103-132.
    - `Returned`.
- **`ChEstCall`** is the abstract specification of one estimator call as MATLAB sees it. Its state is a phase, the accepted port list, the estimates emitted and the metrics returned. It has four actions: `Accept` a port list, `Emit` the next port's estimate, `Finish` with both outputs, and `Abort`. `MultiportChEstMex` instantiates it as `Abs` with the refinement mapping `AbsPhase` (check and config are idle, fill and compute are running) and `ports <- rxPorts` once the configuration is read. `ChEstCallSpec == Abs!Spec` is the property that the handler implements the contract.
- **`PuschDemodulatorMex`** models the construction of the PUSCH MEX object. Each factory result is a pointer, abstracted to `Null` or `Live`. Its actions are:
  - `CreateEqualizerFactory` (line 74), `CreateModulationFactory` (line 76) and `CreatePrgFactory` (line 78);
  - `CreatePuschFactory` (lines 80-81);
  - `CreateDemodulator` (line 83): a null factory is dereferenced and the process crashes;
  - `Construct` (lines 26-34).
- **`MatlabToSrs`** holds the restricted-set and preamble-format conversions, the two a modelled handler calls, as `CASE` operators. `srsran_terminate` is the distinguished result `Terminate`. The modulation and base-graph conversions have no caller in this repository and are not modelled.
- **`MC_MultiportChEstMex`** and **`MC_PrachDetectorMex`** give the constants finite values for TLC.
- **`MultiportChEstMexProofs`** and **`PrachDetectorMexProofs`** hold the TLAPS proofs. See section 5.

## 3. Runs

| Run | cfg | Expect | Shows |
|---|---|---|---|
| `chest_core` | `MC_MultiportChEstMex.cfg` | pass | `TypeOK`; `GridFillColumnMajor` (every written cell holds the MATLAB column of its column-major offset, the view always has room for the next symbol, and after the loop every cell of the grid is written); `OutputFollowsPortIndices` (the output holds the estimates port after port in `PortIndices` order); `ProgressTowardReturn` (action property: every step lowers `StepsLeft`, a natural-number bound on the steps the call still has to take) |
| `chest_refines` | `MC_ChEstRefinement.cfg` | pass | `ChEstCallSpec`: every step of the handler is a step of `ChEstCall` or a stutter under the mapping |
| `chest_zero_ports` | `MC_ChEstZeroPorts.cfg` | violation | `AggregateMetricsDefined`: a 3-D grid with 0 ports and empty `PortIndices` returns NaN averages |
| `prach_core` | `MC_PrachDetectorMex.cfg` | pass | `TypeOK`; `ReportedDetection` (a returned detection ran on a fully filled buffer and reports the list's length and last element); `CallReturns` (under `FairSpec` every call returns, aborts or ends the process); `ProgressTowardReturn` (every step lowers `StepsLeft`) |
| `prach_skip_output` | `MC_PrachSkipOutput.cfg` | violation | `SkippedCallReported`: a restricted-set call returns with `outputs[0]` unassigned |
| `prach_format_tag` | `MC_PrachFormatTag.cfg` | violation | `InvalidFormatRejected`: the tag `"4"`, which names no NR PRACH preamble format, becomes `OTHER` and reaches the fill loop and detection. The valid formats of the MATLAB convention (`MatlabPreambleFormats`: `"0"`..`"3"` and the short formats `"A1"`..`"C2"`) are not flagged: `"A1"` with a 139-sample buffer is a legitimate call |
| `prach_restricted_tag` | `MC_PrachRestrictedTag.cfg` | violation | `InvalidTagNotFatal`: an unknown restricted-set tag terminates the process |
| `pusch_null_factory` | `PuschNullFactory.cfg` | violation | `NoNullDereference`: a null PUSCH demodulator factory is dereferenced at line 83 |

**Bounds.**
- **Estimator:** up to 2 subcarriers, 2 symbols and 2 ports.
  - This is the smallest grid in which a swapped loop nesting, a stale `remaining` or a wrong span cut puts a column in a different slot.
  - Both 2-D grids and 3-D grids are enumerated, including the 3-D grid with 0 ports.
  - Port indices come from {0,1}, so a reordering of the ports is visible.
  - Patterns have up to 2 symbols, 0..2 resource blocks and 0..1 REs per block.
  - Grids with 0 subcarriers or 0 symbols, which line 42 accepts, are left out. With 0 symbols the fill loop writes nothing, and `FillSymbol` advances the port and the symbol in one step, which assumes at least one symbol per port. With 0 subcarriers every column is empty. Neither grid can misplace a column.
- **PRACH:** sample counts are 839, 139 and one invalid value. Symbol counts go up to 2. The format tags are `"0"` and `"3"` (long formats), `"A1"` (a short format that converts to `OTHER`) and `"4"` (a tag that names no format). The restricted-set tags are the unrestricted set, type A and one unknown tag. Detection lists hold up to 2 distinct preambles, so "last" differs from "first".

**Mutants.** Each property of a passing run is broken by a plausible bug in the action it is about:
- a pilot width off by one;
- a view moved with the old `remaining`;
- the copy taken before the port's estimate is computed;
- the empty-list check dropped;
- the first preamble reported instead of the last;
- a PRACH fill loop that forgets `++i_symbol` (breaks `CallReturns` and `ProgressTowardReturn`);
- an estimator fill loop that forgets `++i_symbol` (breaks `ProgressTowardReturn`);
- the copy before the compute (breaks `ChEstCallSpec` as well).

**Fairness.** Only `CallReturns` needs fairness. `FairSpec == Spec /\ WF_vars(Next)` is justified because `method_step` runs on MATLAB's thread from start to end: it takes no locks, waits on nothing and is never preempted for good. So a step that stays enabled is eventually taken. Every other property is a safety property of a single call and is checked under `Spec`.

## 4. Findings

1. `matlab_to_srs_preamble_format` maps every tag other than `"0"`..`"3"` to `OTHER` (line 85). That covers both the short formats and a tag that names no format at all. The PRACH MEX fills the buffer and runs detection with either. §9 says invalid tags fail fast.
2. `matlab_to_srs_restricted_set` calls `srsran_terminate` on an unknown tag (line 65). §7 says errors end the current call only.
3. A 3-D grid with zero ports passes every check of the estimator. The averages at line 199 divide by `nof_rx_ports = 0` and are NaN. The spec does not say what such a grid yields.
4. On a restricted set the PRACH MEX returns without assigning its only output (lines 133-135). §8 of the spec asks for a distinguishable "skipped" outcome.
5. `create_pusch_demodulator` never checks the four factories it creates (lines 74-83), but the constructor checks the final demodulator for null (line 29). A null factory would crash the process instead of failing through `mex_abort`. The model lets each library call return null, since nothing in this repository rules it out.

## 5. Proofs

`MultiportChEstMexProofs` proves, for every value of the constants that satisfies `ConstAssumption`:
- `TypeCorrect`: `Spec => []TypeOK`.
- `GridFillCorrect`: `Spec => []GridFillColumnMajor`.
- `OutputOrderCorrect`: `Spec => []OutputFollowsPortIndices`.
- `ImplementsChEstCall`: `Spec => ChEstCallSpec`, the refinement.
- `ProgressCorrect`: `Spec => ProgressTowardReturn`, an action property.

None of these invariants is inductive on its own. They follow from two inductive invariants.

`IInv` is the fill loop's invariant. It was also checked by TLC on the `chest_core` instance. It is stated in terms of `Copied = iPort*nsym + iSym`, the number of columns copied so far:
- `view.off = Copied*nsc` and `view.len = remaining = (nRx*nsym - Copied)*nsc`;
- `iPort <= nRx`, `iSym < nsym`, and `iPort = nRx => iSym = 0`;
- the cells that come before `(iPort, iSym)` in loop order hold their offsets, and the others are unwritten.

Outside the fill loop, `IInv` states that the grid is untouched before the loop and complete after it. The heart of its step proof is `FillSymbol`: `Copied + 1 <= nRx*nsym` gives `nsc <= remaining`, so the unsigned subtraction never wraps.

`OutInv` is the estimation loop's invariant:
- no port list is accepted, and no output written, before the loop;
- during the loop, `out = SubSeq(rxPorts, 1, iPort)`, and the slots of the ports already computed hold their port index;
- when the call is done, both outputs equal `rxPorts`.

Its step for `ComputePort` rests on the lemma `SubSeqAppend`.

The refinement is proved in two lemmas. `InitRefines` maps `Init` to `Abs!Init`. `NextRefines` shows that every step maps to an `Abs` step or a stutter, using both invariants:
- `Configure` maps to `Accept` or `Abort`;
- `ComputePort` maps to `Emit`;
- `WriteOutputs` maps to `Finish`;
- an abort maps to `Abort`;
- the fill and pilot steps are stutters.

The action property is proved from `IInv` by the one-step lemma `NextProgress`, closed with `PTL`:
- `NextProgress` is a case per action. It rests on two lemmas about the fill loop. `FillLoopBound` says `Copied <= nRx*nsym`, with equality once `iPort = nRx`. `FillSymbolCopied` says one iteration raises `Copied` by exactly one.
- For `Configure`, the new grid's `nRx*nsym` is bounded by `MaxPorts*MaxSym`.

`StepsLeft` is a variant: a natural number that every non-stutter step lowers. So `ProgressCorrect` is the safety half of termination: no behaviour takes more than `MaxPorts*MaxSym + MaxPorts + 4` non-stutter steps. With weak fairness, the call therefore returns. That last step is liveness and is not proved here.

`PrachDetectorMexProofs` proves `TypeCorrect`, `ReportedDetectionCorrect` and `ProgressCorrect` (`Spec => ProgressTowardReturn`, bound `MaxSym + 4`) for the PRACH model. Its inductive invariant adds the fill loop's state, `filled = 0..iSym-1` with `iSym <= nSym`. It also states that `outputs[0]` is assigned only by the report of a non-empty detection list.

**Only model-checked:**
- `CallReturns`. Liveness under fairness is beyond TLAPS here. Its safety half, the variant `ProgressTowardReturn`, is proved.

TLAPS 1.4.5 note for readers of the proofs: SMT fails on arithmetic written directly over a primed variable that is known only by membership (e.g. `n' + 1` from `n' \in 0..M`). The proofs first name the primed value with `PICK` or an equality to unprimed terms.
- The violated properties.

## 6. Not modelled

- **PUSCH demodulator MEX `method_step`:** the body is not in this repository. Only the constructor and the factory chain are modelled.
- **The cyclic-prefix and subcarrier-spacing conversions:** they are called by the estimator but are not in `src/`.
- **The srsRAN algorithms:** correlation, interpolation, equalisation and the resource grid are library code. Their results enter the models as nondeterministic choices.
- **Library buffer capacities:** how many symbols `create_prach_buffer_short(1, 1)` and `create_prach_buffer_long` hold is library code that neither this repository nor the spec states. The fill loop is therefore not checked against a capacity.
- **Null grid and null buffer as states:** a null `create_resource_grid` result (estimator line 116) and a null PRACH buffer (line 90) are folded into the call's abort. In the estimator that abort is shared with the port-count mismatch. No state of the models uses a null pointer, so a dropped null check there is not represented.
- **Metric values:** NaN aggregates and MATLAB's handling of an unassigned output are host behaviour.

## 7. Plan

1. A property that relates `PortIndices` values to the grid ports the estimator reads. The estimator is library code, so this needs a model of its contract.
2. Termination of the estimator call as a liveness property under `WF_vars(Next)`. Its variant is proved (`ProgressCorrect`). A TLC run of the liveness property needs a mutant that stops progress yet keeps the state space finite. Every such fill-loop bug also drives the unbounded `remaining` below zero.
3. Larger instances of the estimator: 3 symbols and 3 ports, run as a separate configuration with a longer budget.
