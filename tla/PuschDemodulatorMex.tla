------------------------- MODULE PuschDemodulatorMex -------------------------
(***************************************************************************)
(* Construction of the PUSCH demodulator MEX object (pusch_demodulator_mex *)
(* .h): the member initialiser create_pusch_demodulator() assembles the    *)
(* demodulator from four srsRAN factories, then the constructor body       *)
(* checks the result and registers the "step" method.  The factories are   *)
(* library code: each returns a pointer that is either null or a live      *)
(* object.  A pointer is abstracted to one of the two.                     *)
(***************************************************************************)

Null == "null"
Live == "live"
Pointers == {Null, Live}

VARIABLES
  pc,           \* where construction is
  eqFactory,    \* equalizer_factory
  demodFactory, \* demod_factory
  prgFactory,   \* prg_factory
  puschFactory, \* pusch_demod_factory
  demodulator,  \* MexFunction::demodulator
  callbacks     \* methods registered with create_callback

vars == <<pc, eqFactory, demodFactory, prgFactory, puschFactory, demodulator,
          callbacks>>

Init ==
  /\ pc = "equalizer"
  /\ eqFactory = Null /\ demodFactory = Null /\ prgFactory = Null
  /\ puschFactory = Null /\ demodulator = Null
  /\ callbacks = {}

(* create_channel_equalizer_factory_zf()                                  *)
CreateEqualizerFactory ==
  /\ pc = "equalizer"
  /\ eqFactory' \in Pointers
  /\ pc' = "modulation"
  /\ UNCHANGED <<demodFactory, prgFactory, puschFactory, demodulator, callbacks>>

(* create_channel_modulation_sw_factory()                                 *)
CreateModulationFactory ==
  /\ pc = "modulation"
  /\ demodFactory' \in Pointers
  /\ pc' = "prg"
  /\ UNCHANGED <<eqFactory, prgFactory, puschFactory, demodulator, callbacks>>

(* create_pseudo_random_generator_sw_factory()                            *)
CreatePrgFactory ==
  /\ pc = "prg"
  /\ prgFactory' \in Pointers
  /\ pc' = "pusch"
  /\ UNCHANGED <<eqFactory, demodFactory, puschFactory, demodulator, callbacks>>

(* create_pusch_demodulator_factory_sw(equalizer_factory, demod_factory,  *)
(* prg_factory): none of its arguments has been checked.                  *)
CreatePuschFactory ==
  /\ pc = "pusch"
  /\ puschFactory' \in Pointers
  /\ pc' = "create"
  /\ UNCHANGED <<eqFactory, demodFactory, prgFactory, demodulator, callbacks>>

(* return pusch_demod_factory->create(): a null factory is dereferenced.  *)
CreateDemodulator ==
  /\ pc = "create"
  /\ IF puschFactory = Null
       THEN pc' = "crashed" /\ demodulator' = demodulator
       ELSE pc' = "check" /\ demodulator' \in Pointers
  /\ UNCHANGED <<eqFactory, demodFactory, prgFactory, puschFactory, callbacks>>

(* The constructor body: a null demodulator aborts, otherwise "step" is   *)
(* registered.                                                            *)
Construct ==
  /\ pc = "check"
  /\ IF demodulator = Null
       THEN pc' = "aborted" /\ callbacks' = callbacks
       ELSE pc' = "ready" /\ callbacks' = callbacks \cup {"step"}
  /\ UNCHANGED <<eqFactory, demodFactory, prgFactory, puschFactory, demodulator>>

(* Construction is over.                                                  *)
Returned ==
  /\ pc \in {"ready", "aborted", "crashed"}
  /\ UNCHANGED vars

Next ==
  \/ CreateEqualizerFactory
  \/ CreateModulationFactory
  \/ CreatePrgFactory
  \/ CreatePuschFactory
  \/ CreateDemodulator
  \/ Construct
  \/ Returned

Spec == Init /\ [][Next]_vars

-----------------------------------------------------------------------------
(* A failed construction fails through mex_abort, as the constructor's    *)
(* null check intends: no pointer produced on the way to the demodulator  *)
(* is dereferenced while null.                                            *)
NoNullDereference ==
  pc # "crashed"

=============================================================================
