-------------------------- MODULE LpcThermalProofs --------------------------
(***************************************************************************)
(* Proofs about LpcThermal for all timeouts, limits and duties.  The       *)
(* safety of the heater rests on one inductive invariant, IInv: it says    *)
(* where in the main loop the interrupt may have struck unnoticed, and     *)
(* what still holds there.                                                 *)
(***************************************************************************)
EXTENDS LpcThermal, TLAPS

\* The places of Control after its checks, up to and with the write.
ControlLaw == {"boost", "reboost", "switch", "settle", "latch", "apply", "write", "recheck"}

\* A heater that is on without a tripped latch is driven by an active
\* controller that hears the host.
HeatedWhileHeard == heater # 0 /\ ~linkTimeoutLatched => Active /\ LinkAlive

\* Past its checks Control runs on a configured controller, and either the
\* interrupt has struck or the controller is still active and in contact.
ControlLawGuarded ==
  at \in ControlLaw => /\ Ready
                       /\ linkTimeoutLatched \/ (Active /\ LinkAlive)
                       /\ badReadings = 0

\* An active controller is configured, unless it is about to fault.
ActiveIsReady == Active /\ at # "fault" => Ready

\* The handlers in progress: what their earlier steps established.
HandlersInProgress ==
  /\ at = "park" => heater = 0 /\ heldState \in {"off", "suspended"}
  /\ at = "resetDone" => heater = 0
  /\ at \in {"park", "onSample", "onSet"} /\ state = "fault" => linkTimeoutLatched
  /\ at \in {"onSample", "onSet"} => Ready
  /\ at = "decide" /\ band # "bad" => badReadings = 0

\* A heater that stays on after bad samples stays within a limit, except
\* inside the Control that will turn it off.
BlindnessBounded ==
  heater # 0 /\ at \notin {"decide", "fault"} => \E limit \in BadLimits : badReadings <= limit

Guarded ==
  /\ LatchHoldsHeaterOff
  /\ HeatedWhileHeard
  /\ ControlLawGuarded
  /\ ActiveIsReady
  /\ HandlersInProgress
  /\ BlindnessBounded

IInv == TypeOK /\ Guarded

-----------------------------------------------------------------------------
\* The values the steps assign belong to the sets of the type invariant.
LEMMA Values ==
  /\ {"loop", "park", "onSample", "onRefuse", "onSet", "resetSample", "resetClear",
      "resetDone", "sample", "decide", "fault", "reportState", "reportError"} \subseteq Places
  /\ ControlLaw \subseteq Places
  /\ {"boost", "reboost", "switch", "settle", "latch", "apply", "write", "recheck"} \subseteq ControlLaw
  /\ {"fault", "off", "suspended", "stable", "heating", "cooling"} \subseteq States
  /\ {"none", "notConfigured", "sensor", "linkTimeout", "limit", "controlFault",
      "heatingTooSlow", "temperatureExcursion"} \subseteq Errors
  /\ "bad" \in Bands
  BY DEF Places, ControlLaw, States, ActiveStates, Errors, Bands, GoodBands

\* Type correctness: no interleaving of handlers and interrupts leaves a
\* variable outside its type.
THEOREM TypeCorrect == Spec => []TypeOK
<1>1. Init => TypeOK
  <2>1. Init => FlagsTyped
    BY DEF Init, FlagsTyped
  <2>2. Init => ValuesTyped
    BY ConstantsAssumption, Values, SMT DEF Init, ValuesTyped
  <2>3. Init => reported \in States \X Errors
    BY Values DEF Init
  <2>4. QED
    BY <2>1, <2>2, <2>3 DEF TypeOK
<1>2. TypeOK /\ [Next]_vars => TypeOK'
  <2> SUFFICES ASSUME TypeOK, [Next]_vars PROVE TypeOK'
    OBVIOUS
  <2> USE ConstantsAssumption, Values
      DEF TypeOK, Goto, ForgetLocals, EndHandler, shared, config, control, locals,
          Active, LinkAlive, Ready
  <2>1. CASE Ping
    <3>1. FlagsTyped'
      BY <2>1 DEF Ping, FlagsTyped
    <3>2. ValuesTyped'
      BY <2>1 DEF Ping, ValuesTyped
    <3>3. (reported \in States \X Errors)'
      BY <2>1 DEF Ping, ValuesTyped
    <3>4. QED
      BY <3>1, <3>2, <3>3 DEF TypeOK
  <2>2. CASE ConfigurationReset
    <3>1. FlagsTyped'
      BY <2>2 DEF ConfigurationReset, FlagsTyped
    <3>2. ValuesTyped'
      BY <2>2 DEF ConfigurationReset, ValuesTyped
    <3>3. (reported \in States \X Errors)'
      BY <2>2 DEF ConfigurationReset, ValuesTyped
    <3>4. QED
      BY <3>1, <3>2, <3>3 DEF TypeOK
  <2>3. CASE ConfigurationComplete
    <3>1. FlagsTyped'
      BY <2>3 DEF ConfigurationComplete, FlagsTyped
    <3>2. ValuesTyped'
      BY <2>3 DEF ConfigurationComplete, ValuesTyped
    <3>3. (reported \in States \X Errors)'
      BY <2>3 DEF ConfigurationComplete, ValuesTyped
    <3>4. QED
      BY <3>1, <3>2, <3>3 DEF TypeOK
  <2>4. ASSUME NEW valid \in BOOLEAN, ConfigureThermistor(valid) PROVE TypeOK'
    <3>1. FlagsTyped'
      BY <2>4 DEF ConfigureThermistor, RefuseConfiguration, CallSetFault, FlagsTyped
    <3>2. ValuesTyped'
      BY <2>4 DEF ConfigureThermistor, RefuseConfiguration, CallSetFault, ValuesTyped
    <3>3. (reported \in States \X Errors)'
      BY <2>4 DEF ConfigureThermistor, RefuseConfiguration, CallSetFault, ValuesTyped
    <3>4. QED
      BY <3>1, <3>2, <3>3 DEF TypeOK
  <2>5. ASSUME NEW part \in {"A", "B", "C"}, NEW valid \in BOOLEAN, ConfigureModel(part, valid) PROVE TypeOK'
    <3>1. FlagsTyped'
      BY <2>5 DEF ConfigureModel, RejectModelUpdate, CallSetFault, FlagsTyped
    <3>2. ValuesTyped'
      BY <2>5 DEF ConfigureModel, RejectModelUpdate, CallSetFault, ValuesTyped
    <3>3. (reported \in States \X Errors)'
      BY <2>5 DEF ConfigureModel, RejectModelUpdate, CallSetFault, ValuesTyped
    <3>4. QED
      BY <3>1, <3>2, <3>3 DEF TypeOK
  <2>6. ASSUME NEW valid \in BOOLEAN, NEW limit \in BadLimits, ConfigureHeater(valid, limit) PROVE TypeOK'
    <3>1. FlagsTyped'
      BY <2>6 DEF ConfigureHeater, RefuseConfiguration, CallSetFault, FlagsTyped
    <3>2. ValuesTyped'
      BY <2>6 DEF ConfigureHeater, RefuseConfiguration, CallSetFault, ValuesTyped
    <3>3. (reported \in States \X Errors)'
      BY <2>6 DEF ConfigureHeater, RefuseConfiguration, CallSetFault, ValuesTyped
    <3>4. QED
      BY <3>1, <3>2, <3>3 DEF TypeOK
  <2>7. ASSUME NEW finite \in BOOLEAN, NEW differs \in BOOLEAN, ConfigureFeedForward(finite, differs) PROVE TypeOK'
    <3>1. FlagsTyped'
      BY <2>7 DEF ConfigureFeedForward, CallSetFault, FlagsTyped
    <3>2. ValuesTyped'
      BY <2>7 DEF ConfigureFeedForward, CallSetFault, ValuesTyped
    <3>3. (reported \in States \X Errors)'
      BY <2>7 DEF ConfigureFeedForward, CallSetFault, ValuesTyped
    <3>4. QED
      BY <3>1, <3>2, <3>3 DEF TypeOK
  <2>8. ASSUME NEW command \in {"off", "suspend"}, CommandPark(command) PROVE TypeOK'
    <3>1. FlagsTyped'
      BY <2>8 DEF CommandPark, FlagsTyped
    <3>2. ValuesTyped'
      BY <2>8 DEF CommandPark, ValuesTyped
    <3>3. (reported \in States \X Errors)'
      BY <2>8 DEF CommandPark, ValuesTyped
    <3>4. QED
      BY <3>1, <3>2, <3>3 DEF TypeOK
  <2>9. CASE CommandOn
    <3>1. FlagsTyped'
      BY <2>9 DEF CommandOn, FlagsTyped
    <3>2. ValuesTyped'
      BY <2>9 DEF CommandOn, ValuesTyped
    <3>3. (reported \in States \X Errors)'
      BY <2>9 DEF CommandOn, ValuesTyped
    <3>4. QED
      BY <3>1, <3>2, <3>3 DEF TypeOK
  <2>10. CASE CommandResetFault
    <3>1. FlagsTyped'
      BY <2>10 DEF CommandResetFault, FlagsTyped
    <3>2. ValuesTyped'
      BY <2>10 DEF CommandResetFault, ValuesTyped
    <3>3. (reported \in States \X Errors)'
      BY <2>10 DEF CommandResetFault, ValuesTyped
    <3>4. QED
      BY <3>1, <3>2, <3>3 DEF TypeOK
  <2>11. CASE StartControl
    <3>1. FlagsTyped'
      BY <2>11 DEF StartControl, FlagsTyped
    <3>2. ValuesTyped'
      BY <2>11 DEF StartControl, ValuesTyped
    <3>3. (reported \in States \X Errors)'
      BY <2>11 DEF StartControl, ValuesTyped
    <3>4. QED
      BY <3>1, <3>2, <3>3 DEF TypeOK
  <2>12. CASE TakeStatus
    <3>1. FlagsTyped'
      BY <2>12 DEF TakeStatus, FlagsTyped
    <3>2. ValuesTyped'
      BY <2>12 DEF TakeStatus, ValuesTyped
    <3>3. (reported \in States \X Errors)'
      BY <2>12 DEF TakeStatus, ValuesTyped
    <3>4. QED
      BY <3>1, <3>2, <3>3 DEF TypeOK
  <2>13. CASE RecordFault
    <3>1. FlagsTyped'
      BY <2>13 DEF RecordFault, FlagsTyped
    <3>2. ValuesTyped'
      BY <2>13 DEF RecordFault, ValuesTyped
    <3>3. (reported \in States \X Errors)'
      BY <2>13 DEF RecordFault, ValuesTyped
    <3>4. QED
      BY <3>1, <3>2, <3>3 DEF TypeOK
  <2>14. CASE Park
    <3>1. FlagsTyped'
      BY <2>14 DEF Park, FlagsTyped
    <3>2. ValuesTyped'
      BY <2>14 DEF Park, ValuesTyped
    <3>3. (reported \in States \X Errors)'
      BY <2>14 DEF Park, ValuesTyped
    <3>4. QED
      BY <3>1, <3>2, <3>3 DEF TypeOK
  <2>15. ASSUME NEW b \in Bands, OnSample(b) PROVE TypeOK'
    <3>1. FlagsTyped'
      BY <2>15 DEF OnSample, SampleTemperature, FlagsTyped
    <3>2. ValuesTyped'
      BY <2>15 DEF OnSample, SampleTemperature, ValuesTyped
    <3>3. (reported \in States \X Errors)'
      BY <2>15 DEF OnSample, SampleTemperature, ValuesTyped
    <3>4. QED
      BY <3>1, <3>2, <3>3 DEF TypeOK
  <2>16. ASSUME NEW b \in Bands, ResetSample(b) PROVE TypeOK'
    <3>1. FlagsTyped'
      BY <2>16 DEF ResetSample, SampleTemperature, FlagsTyped
    <3>2. ValuesTyped'
      BY <2>16 DEF ResetSample, SampleTemperature, ValuesTyped
    <3>3. (reported \in States \X Errors)'
      BY <2>16 DEF ResetSample, SampleTemperature, ValuesTyped
    <3>4. QED
      BY <3>1, <3>2, <3>3 DEF TypeOK
  <2>17. ASSUME NEW b \in Bands, Sample(b) PROVE TypeOK'
    <3>1. FlagsTyped'
      BY <2>17 DEF Sample, SampleTemperature, FlagsTyped
    <3>2. ValuesTyped'
      BY <2>17 DEF Sample, SampleTemperature, ValuesTyped
    <3>3. (reported \in States \X Errors)'
      BY <2>17 DEF Sample, SampleTemperature, ValuesTyped
    <3>4. QED
      BY <3>1, <3>2, <3>3 DEF TypeOK
  <2>18. CASE OnRefuse
    <3>1. FlagsTyped'
      BY <2>18 DEF OnRefuse, CallSetFault, FlagsTyped
    <3>2. ValuesTyped'
      BY <2>18 DEF OnRefuse, CallSetFault, ValuesTyped
    <3>3. (reported \in States \X Errors)'
      BY <2>18 DEF OnRefuse, CallSetFault, ValuesTyped
    <3>4. QED
      BY <3>1, <3>2, <3>3 DEF TypeOK
  <2>19. ASSUME NEW inRange \in BOOLEAN, OnSet(inRange) PROVE TypeOK'
    <3>1. FlagsTyped'
      BY <2>19 DEF OnSet, CallSetFault, UpdateHeaterState, StateFor, GoodBands, FlagsTyped
    <3>2. ValuesTyped'
      BY <2>19 DEF OnSet, CallSetFault, UpdateHeaterState, StateFor, GoodBands, ValuesTyped
    <3>3. (reported \in States \X Errors)'
      BY <2>19 DEF OnSet, CallSetFault, UpdateHeaterState, StateFor, GoodBands, ValuesTyped
    <3>4. QED
      BY <3>1, <3>2, <3>3 DEF TypeOK
  <2>20. CASE ResetClear
    <3>1. FlagsTyped'
      BY <2>20 DEF ResetClear, FlagsTyped
    <3>2. ValuesTyped'
      BY <2>20 DEF ResetClear, ValuesTyped
    <3>3. (reported \in States \X Errors)'
      BY <2>20 DEF ResetClear, ValuesTyped
    <3>4. QED
      BY <3>1, <3>2, <3>3 DEF TypeOK
  <2>21. CASE ResetDone
    <3>1. FlagsTyped'
      BY <2>21 DEF ResetDone, FlagsTyped
    <3>2. ValuesTyped'
      BY <2>21 DEF ResetDone, ValuesTyped
    <3>3. (reported \in States \X Errors)'
      BY <2>21 DEF ResetDone, ValuesTyped
    <3>4. QED
      BY <3>1, <3>2, <3>3 DEF TypeOK
  <2>22. ASSUME NEW outside \in BOOLEAN, Decide(outside) PROVE TypeOK'
    <3>1. FlagsTyped'
      BY <2>22 DEF Decide, CallSetFault, TooManyBad, FlagsTyped
    <3>2. ValuesTyped'
      BY <2>22 DEF Decide, CallSetFault, TooManyBad, ValuesTyped
    <3>3. (reported \in States \X Errors)'
      BY <2>22 DEF Decide, CallSetFault, TooManyBad, ValuesTyped
    <3>4. QED
      BY <3>1, <3>2, <3>3 DEF TypeOK
  <2>23. CASE Boost
    <3>1. FlagsTyped'
      BY <2>23 DEF Boost, FlagsTyped
    <3>2. ValuesTyped'
      BY <2>23 DEF Boost, ValuesTyped
    <3>3. (reported \in States \X Errors)'
      BY <2>23 DEF Boost, ValuesTyped
    <3>4. QED
      BY <3>1, <3>2, <3>3 DEF TypeOK
  <2>24. CASE Reboost
    <3>1. FlagsTyped'
      BY <2>24 DEF Reboost, UpdateHeaterState, StateFor, FlagsTyped
    <3>2. ValuesTyped'
      BY <2>24 DEF Reboost, UpdateHeaterState, StateFor, ValuesTyped
    <3>3. (reported \in States \X Errors)'
      BY <2>24 DEF Reboost, UpdateHeaterState, StateFor, ValuesTyped
    <3>4. QED
      BY <3>1, <3>2, <3>3 DEF TypeOK
  <2>25. CASE SwitchHeating
    <3>1. FlagsTyped'
      BY <2>25 DEF SwitchHeating, CallSetFault, LowerTimer, FlagsTyped
    <3>2. ValuesTyped'
      BY <2>25 DEF SwitchHeating, CallSetFault, LowerTimer, ValuesTyped
    <3>3. (reported \in States \X Errors)'
      BY <2>25 DEF SwitchHeating, CallSetFault, LowerTimer, ValuesTyped
    <3>4. QED
      BY <3>1, <3>2, <3>3 DEF TypeOK
  <2>26. CASE SwitchStable
    <3>1. FlagsTyped'
      BY <2>26 DEF SwitchStable, CallSetFault, LowerTimer, FlagsTyped
    <3>2. ValuesTyped'
      BY <2>26 DEF SwitchStable, CallSetFault, LowerTimer, ValuesTyped
    <3>3. (reported \in States \X Errors)'
      BY <2>26 DEF SwitchStable, CallSetFault, LowerTimer, ValuesTyped
    <3>4. QED
      BY <3>1, <3>2, <3>3 DEF TypeOK
  <2>27. ASSUME NEW warm \in BOOLEAN, SwitchOther(warm) PROVE TypeOK'
    <3>1. FlagsTyped'
      BY <2>27 DEF SwitchOther, FlagsTyped
    <3>2. ValuesTyped'
      BY <2>27 DEF SwitchOther, ValuesTyped
    <3>3. (reported \in States \X Errors)'
      BY <2>27 DEF SwitchOther, ValuesTyped
    <3>4. QED
      BY <3>1, <3>2, <3>3 DEF TypeOK
  <2>28. CASE Settle
    <3>1. FlagsTyped'
      BY <2>28 DEF Settle, FlagsTyped
    <3>2. ValuesTyped'
      BY <2>28 DEF Settle, ValuesTyped
    <3>3. (reported \in States \X Errors)'
      BY <2>28 DEF Settle, ValuesTyped
    <3>4. QED
      BY <3>1, <3>2, <3>3 DEF TypeOK
  <2>29. ASSUME NEW d \in 0 .. MaxDuty, CheckLatch(d) PROVE TypeOK'
    <3>1. FlagsTyped'
      BY <2>29 DEF CheckLatch, CallSetFault, FlagsTyped
    <3>2. ValuesTyped'
      BY <2>29 DEF CheckLatch, CallSetFault, ValuesTyped
    <3>3. (reported \in States \X Errors)'
      BY <2>29 DEF CheckLatch, CallSetFault, ValuesTyped
    <3>4. QED
      BY <3>1, <3>2, <3>3 DEF TypeOK
  <2>30. CASE LimitDuty
    <3>1. FlagsTyped'
      BY <2>30 DEF LimitDuty, FlagsTyped
    <3>2. ValuesTyped'
      BY <2>30 DEF LimitDuty, ValuesTyped
    <3>3. (reported \in States \X Errors)'
      BY <2>30 DEF LimitDuty, ValuesTyped
    <3>4. QED
      BY <3>1, <3>2, <3>3 DEF TypeOK
  <2>31. CASE WriteDuty
    <3>1. FlagsTyped'
      BY <2>31 DEF WriteDuty, FlagsTyped
    <3>2. ValuesTyped'
      BY <2>31 DEF WriteDuty, ValuesTyped
    <3>3. (reported \in States \X Errors)'
      BY <2>31 DEF WriteDuty, ValuesTyped
    <3>4. QED
      BY <3>1, <3>2, <3>3 DEF TypeOK
  <2>32. CASE RecheckLatch
    <3>1. FlagsTyped'
      BY <2>32 DEF RecheckLatch, FlagsTyped
    <3>2. ValuesTyped'
      BY <2>32 DEF RecheckLatch, ValuesTyped
    <3>3. (reported \in States \X Errors)'
      BY <2>32 DEF RecheckLatch, ValuesTyped
    <3>4. QED
      BY <3>1, <3>2, <3>3 DEF TypeOK
  <2>33. CASE ReadState
    <3>1. FlagsTyped'
      BY <2>33 DEF ReadState, FlagsTyped
    <3>2. ValuesTyped'
      BY <2>33 DEF ReadState, ValuesTyped
    <3>3. (reported \in States \X Errors)'
      BY <2>33 DEF ReadState, ValuesTyped
    <3>4. QED
      BY <3>1, <3>2, <3>3 DEF TypeOK
  <2>34. CASE ReadError
    <3>1. FlagsTyped'
      BY <2>34 DEF ReadError, FlagsTyped
    <3>2. ValuesTyped'
      BY <2>34 DEF ReadError, ValuesTyped
    <3>3. (reported \in States \X Errors)'
      BY <2>34 DEF ReadError, ValuesTyped
    <3>4. QED
      BY <3>1, <3>2, <3>3 DEF TypeOK
  <2>35. CASE Tick
    <3>1. FlagsTyped'
      BY <2>35 DEF Tick, FlagsTyped
    <3>2. ValuesTyped'
      BY <2>35 DEF Tick, ValuesTyped
    <3>3. (reported \in States \X Errors)'
      BY <2>35 DEF Tick, ValuesTyped
    <3>4. QED
      BY <3>1, <3>2, <3>3 DEF TypeOK
  <2>36. CASE UNCHANGED vars
    BY <2>36 DEF vars, TypeOK, FlagsTyped, ValuesTyped
  <2>37. QED
    BY <2>1, <2>2, <2>3, <2>4, <2>5, <2>6, <2>7, <2>8, <2>9, <2>10, <2>11, <2>12, <2>13, <2>14, <2>15, <2>16, <2>17, <2>18, <2>19, <2>20, <2>21, <2>22, <2>23, <2>24, <2>25, <2>26, <2>27, <2>28, <2>29, <2>30, <2>31, <2>32, <2>33, <2>34, <2>35, <2>36
       DEF Next, HandleFrame, Continue
<1>3. QED
  BY <1>1, <1>2, PTL DEF Spec

-----------------------------------------------------------------------------
\* The inductive invariant holds of every behaviour.
THEOREM Invariance == Spec => []IInv
<1>1. Init => Guarded
  <2> SUFFICES ASSUME Init PROVE Guarded
    OBVIOUS
  <2>1. at = "loop" /\ heater = 0 /\ ~linkTimeoutLatched /\ state = "off"
    BY DEF Init
  <2>2. QED
    BY <2>1 DEF Guarded, LatchHoldsHeaterOff, HeatedWhileHeard, ControlLawGuarded, ControlLaw,
                ActiveIsReady, Active, ActiveStates, HandlersInProgress, BlindnessBounded
<1>2. TypeOK /\ Guarded /\ [Next]_vars => Guarded'
  <2> SUFFICES ASSUME TypeOK, Guarded, [Next]_vars PROVE Guarded'
    OBVIOUS
  <2> USE ConstantsAssumption
      DEF TypeOK, ValuesTyped, Guarded, LatchHoldsHeaterOff, HeatedWhileHeard, ControlLawGuarded,
          ActiveIsReady, HandlersInProgress, BlindnessBounded, ControlLaw, Active, ActiveStates,
          LinkAlive, Ready, Goto, ForgetLocals, EndHandler, shared, config, control, locals
  <2>1. CASE Ping
    BY <2>1 DEF Ping
  <2>2. CASE ConfigurationReset
    BY <2>2 DEF ConfigurationReset
  <2>3. CASE ConfigurationComplete
    BY <2>3 DEF ConfigurationComplete
  <2>4. ASSUME NEW valid \in BOOLEAN, ConfigureThermistor(valid) PROVE Guarded'
    BY <2>4 DEF ConfigureThermistor, RefuseConfiguration, CallSetFault
  <2>5. ASSUME NEW part \in {"A", "B", "C"}, NEW valid \in BOOLEAN, ConfigureModel(part, valid) PROVE Guarded'
    BY <2>5 DEF ConfigureModel, RejectModelUpdate, CallSetFault
  <2>6. ASSUME NEW valid \in BOOLEAN, NEW limit \in BadLimits, ConfigureHeater(valid, limit) PROVE Guarded'
    BY <2>6 DEF ConfigureHeater, RefuseConfiguration, CallSetFault
  <2>7. ASSUME NEW finite \in BOOLEAN, NEW differs \in BOOLEAN, ConfigureFeedForward(finite, differs) PROVE Guarded'
    BY <2>7 DEF ConfigureFeedForward, CallSetFault
  <2>8. ASSUME NEW command \in {"off", "suspend"}, CommandPark(command) PROVE Guarded'
    BY <2>8 DEF CommandPark
  <2>9. CASE CommandOn
    BY <2>9 DEF CommandOn
  <2>10. CASE CommandResetFault
    BY <2>10 DEF CommandResetFault
  <2>11. CASE StartControl
    BY <2>11 DEF StartControl
  <2>12. CASE TakeStatus
    BY <2>12 DEF TakeStatus
  <2>13. CASE RecordFault
    BY <2>13 DEF RecordFault
  <2>14. CASE Park
    BY <2>14 DEF Park
  <2>15. ASSUME NEW b \in Bands, OnSample(b) PROVE Guarded'
    BY <2>15 DEF OnSample, SampleTemperature
  <2>16. ASSUME NEW b \in Bands, ResetSample(b) PROVE Guarded'
    BY <2>16 DEF ResetSample, SampleTemperature
  <2>17. ASSUME NEW b \in Bands, Sample(b) PROVE Guarded'
    BY <2>17 DEF Sample, SampleTemperature
  <2>18. CASE OnRefuse
    BY <2>18 DEF OnRefuse, CallSetFault
  <2>19. ASSUME NEW inRange \in BOOLEAN, OnSet(inRange) PROVE Guarded'
    BY <2>19 DEF OnSet, CallSetFault, UpdateHeaterState, StateFor, GoodBands
  <2>20. CASE ResetClear
    BY <2>20 DEF ResetClear
  <2>21. CASE ResetDone
    BY <2>21 DEF ResetDone
  <2>22. ASSUME NEW outside \in BOOLEAN, Decide(outside) PROVE Guarded'
    BY <2>22 DEF Decide, CallSetFault, TooManyBad
  <2>23. CASE Boost
    BY <2>23 DEF Boost
  <2>24. CASE Reboost
    BY <2>24 DEF Reboost, UpdateHeaterState, StateFor
  <2>25. CASE SwitchHeating
    BY <2>25 DEF SwitchHeating, CallSetFault, LowerTimer
  <2>26. CASE SwitchStable
    BY <2>26 DEF SwitchStable, CallSetFault, LowerTimer
  <2>27. ASSUME NEW warm \in BOOLEAN, SwitchOther(warm) PROVE Guarded'
    BY <2>27 DEF SwitchOther
  <2>28. CASE Settle
    BY <2>28 DEF Settle
  <2>29. ASSUME NEW d \in 0 .. MaxDuty, CheckLatch(d) PROVE Guarded'
    BY <2>29 DEF CheckLatch, CallSetFault
  <2>30. CASE LimitDuty
    BY <2>30 DEF LimitDuty
  <2>31. CASE WriteDuty
    BY <2>31 DEF WriteDuty
  <2>32. CASE RecheckLatch
    BY <2>32 DEF RecheckLatch
  <2>33. CASE ReadState
    BY <2>33 DEF ReadState
  <2>34. CASE ReadError
    BY <2>34 DEF ReadError
  <2>35. CASE Tick
    BY <2>35 DEF Tick
  <2>36. CASE UNCHANGED vars
    BY <2>36 DEF vars
  <2>37. QED
    BY <2>1, <2>2, <2>3, <2>4, <2>5, <2>6, <2>7, <2>8, <2>9, <2>10, <2>11, <2>12, <2>13, <2>14, <2>15, <2>16, <2>17, <2>18, <2>19, <2>20, <2>21, <2>22, <2>23, <2>24, <2>25, <2>26, <2>27, <2>28, <2>29, <2>30, <2>31, <2>32, <2>33, <2>34, <2>35, <2>36
       DEF Next, HandleFrame, Continue
<1>3. QED
  BY <1>1, <1>2, TypeCorrect, PTL DEF Spec, IInv

\* The heater is safe: latched off after a timeout, off while the host is
\* silent, supervised while it is on, and never on blindly for long.
THEOREM HeaterIsSafe == Spec => []HeatingIsSafe
<1>1. IInv => HeatingIsSafe
  BY DEF IInv, Guarded, LatchHoldsHeaterOff, HeatedWhileHeard, ActiveIsReady, BlindnessBounded,
         SilenceStopsHeating, HeatingIsSupervised, BlindHeatingIsBounded, HeatingIsSafe, LinkAlive
<1>2. QED
  BY <1>1, Invariance, PTL

-----------------------------------------------------------------------------
\* Refinement: every step of the controller is a step of the interlock, or none.
InterlockStep ==
  \/ silence' = 0 /\ Hot' = Hot /\ linkTimeoutLatched' = linkTimeoutLatched
  \/ /\ silence' = silence
     /\ \/ linkTimeoutLatched' = linkTimeoutLatched /\ (Hot' => Hot)
        \/ linkTimeoutLatched' = linkTimeoutLatched /\ ~linkTimeoutLatched /\ LinkAlive /\ Hot'
        \/ ~linkTimeoutLatched' /\ ~Hot'
  \/ Interlock!Tick

\* The controller implements the interlock: frames, control steps, reports and
\* interrupts heat only while the host is heard and nothing is latched.
THEOREM ControllerIsInterlock == Spec => ImplementsInterlock
<1>1. Init => Interlock!Init
  BY DEF Init, Interlock!Init, Hot
<1>2. IInv /\ [Next]_vars => InterlockStep
  <2> SUFFICES ASSUME IInv, [Next]_vars PROVE InterlockStep
    OBVIOUS
  <2> USE DEF IInv, TypeOK, ValuesTyped, Guarded, LatchHoldsHeaterOff, HeatedWhileHeard,
          ControlLawGuarded, HandlersInProgress, ControlLaw, InterlockStep, Hot, LinkAlive,
          Goto, ForgetLocals, EndHandler, shared, config, control, locals
  <2>1. CASE Ping
    BY <2>1 DEF Ping
  <2>2. CASE ConfigurationReset
    BY <2>2 DEF ConfigurationReset
  <2>3. CASE ConfigurationComplete
    BY <2>3 DEF ConfigurationComplete
  <2>4. ASSUME NEW valid \in BOOLEAN, ConfigureThermistor(valid) PROVE InterlockStep
    BY <2>4 DEF ConfigureThermistor, RefuseConfiguration, CallSetFault
  <2>5. ASSUME NEW part \in {"A", "B", "C"}, NEW valid \in BOOLEAN, ConfigureModel(part, valid) PROVE InterlockStep
    BY <2>5 DEF ConfigureModel, RejectModelUpdate, CallSetFault
  <2>6. ASSUME NEW valid \in BOOLEAN, NEW limit \in BadLimits, ConfigureHeater(valid, limit) PROVE InterlockStep
    BY <2>6 DEF ConfigureHeater, RefuseConfiguration, CallSetFault
  <2>7. ASSUME NEW finite \in BOOLEAN, NEW differs \in BOOLEAN, ConfigureFeedForward(finite, differs) PROVE InterlockStep
    BY <2>7 DEF ConfigureFeedForward, CallSetFault
  <2>8. ASSUME NEW command \in {"off", "suspend"}, CommandPark(command) PROVE InterlockStep
    BY <2>8 DEF CommandPark
  <2>9. CASE CommandOn
    BY <2>9 DEF CommandOn
  <2>10. CASE CommandResetFault
    BY <2>10 DEF CommandResetFault
  <2>11. CASE StartControl
    BY <2>11 DEF StartControl
  <2>12. CASE TakeStatus
    BY <2>12 DEF TakeStatus
  <2>13. CASE RecordFault
    BY <2>13 DEF RecordFault
  <2>14. CASE Park
    BY <2>14 DEF Park
  <2>15. ASSUME NEW b \in Bands, OnSample(b) PROVE InterlockStep
    BY <2>15 DEF OnSample, SampleTemperature
  <2>16. ASSUME NEW b \in Bands, ResetSample(b) PROVE InterlockStep
    BY <2>16 DEF ResetSample, SampleTemperature
  <2>17. ASSUME NEW b \in Bands, Sample(b) PROVE InterlockStep
    BY <2>17 DEF Sample, SampleTemperature
  <2>18. CASE OnRefuse
    BY <2>18 DEF OnRefuse, CallSetFault
  <2>19. ASSUME NEW inRange \in BOOLEAN, OnSet(inRange) PROVE InterlockStep
    BY <2>19 DEF OnSet, CallSetFault, UpdateHeaterState, StateFor, GoodBands
  <2>20. CASE ResetClear
    BY <2>20 DEF ResetClear
  <2>21. CASE ResetDone
    BY <2>21 DEF ResetDone
  <2>22. ASSUME NEW outside \in BOOLEAN, Decide(outside) PROVE InterlockStep
    BY <2>22 DEF Decide, CallSetFault, TooManyBad
  <2>23. CASE Boost
    BY <2>23 DEF Boost
  <2>24. CASE Reboost
    BY <2>24 DEF Reboost, UpdateHeaterState, StateFor
  <2>25. CASE SwitchHeating
    BY <2>25 DEF SwitchHeating, CallSetFault, LowerTimer
  <2>26. CASE SwitchStable
    BY <2>26 DEF SwitchStable, CallSetFault, LowerTimer
  <2>27. ASSUME NEW warm \in BOOLEAN, SwitchOther(warm) PROVE InterlockStep
    BY <2>27 DEF SwitchOther
  <2>28. CASE Settle
    BY <2>28 DEF Settle
  <2>29. ASSUME NEW d \in 0 .. MaxDuty, CheckLatch(d) PROVE InterlockStep
    BY <2>29 DEF CheckLatch, CallSetFault
  <2>30. CASE LimitDuty
    BY <2>30 DEF LimitDuty
  <2>31. CASE WriteDuty
    BY <2>31 DEF WriteDuty
  <2>32. CASE RecheckLatch
    BY <2>32 DEF RecheckLatch
  <2>33. CASE ReadState
    BY <2>33 DEF ReadState
  <2>34. CASE ReadError
    BY <2>34 DEF ReadError
  <2>35. CASE Tick
    <3>1. silence' = (IF silence <= LinkTimeout THEN silence + 1 ELSE silence)
      BY <2>35 DEF Tick
    <3>2. CASE silence' > LinkTimeout
      BY <2>35, <3>1, <3>2 DEF Tick, Interlock!Tick, Active
    <3>3. CASE ~(silence' > LinkTimeout)
      BY <2>35, <3>1, <3>3 DEF Tick, Interlock!Tick
    <3>4. QED
      BY <3>2, <3>3
  <2>36. CASE UNCHANGED vars
    BY <2>36 DEF vars
  <2>37. QED
    BY <2>1, <2>2, <2>3, <2>4, <2>5, <2>6, <2>7, <2>8, <2>9, <2>10, <2>11, <2>12, <2>13, <2>14, <2>15, <2>16, <2>17, <2>18, <2>19, <2>20, <2>21, <2>22, <2>23, <2>24, <2>25, <2>26, <2>27, <2>28, <2>29, <2>30, <2>31, <2>32, <2>33, <2>34, <2>35, <2>36
       DEF Next, HandleFrame, Continue
<1>3. InterlockStep => [Interlock!Next]_(Interlock!vars)
  BY DEF InterlockStep, Interlock!Next, Interlock!vars, Interlock!Hear, Interlock!Heat,
         Interlock!Cool, Interlock!Unlock, LinkAlive, Hot
<1>4. QED
  BY <1>1, <1>2, <1>3, Invariance, PTL DEF Spec, ImplementsInterlock, Interlock!Spec

-----------------------------------------------------------------------------
\* A fault that goes away without resetFault or configurationReset leaves the latch set.
THEOREM FaultsAreKept == Spec => FaultIsAcknowledgedOrLatched
<1> DEFINE Acknowledged ==
      state = "fault" /\ state' # "fault" =>
        \/ linkTimeoutLatched'
        \/ at = "resetDone"
        \/ at = "loop" /\ needsConfiguration'
<1>1. IInv /\ [Next]_vars => Acknowledged
  <2> SUFFICES ASSUME IInv, [Next]_vars PROVE Acknowledged
    OBVIOUS
  <2> USE DEF IInv, TypeOK, FlagsTyped, Guarded, ControlLawGuarded, HandlersInProgress, ControlLaw,
          Active, ActiveStates, shared, config, control, locals, Goto, ForgetLocals, EndHandler
  <2>1. CASE Ping
    BY <2>1 DEF Ping
  <2>2. CASE ConfigurationReset
    BY <2>2 DEF ConfigurationReset
  <2>3. CASE ConfigurationComplete
    BY <2>3 DEF ConfigurationComplete
  <2>4. ASSUME NEW valid \in BOOLEAN, ConfigureThermistor(valid) PROVE Acknowledged
    BY <2>4 DEF ConfigureThermistor, RefuseConfiguration, CallSetFault
  <2>5. ASSUME NEW part \in {"A", "B", "C"}, NEW valid \in BOOLEAN, ConfigureModel(part, valid) PROVE Acknowledged
    BY <2>5 DEF ConfigureModel, RejectModelUpdate, CallSetFault
  <2>6. ASSUME NEW valid \in BOOLEAN, NEW limit \in BadLimits, ConfigureHeater(valid, limit) PROVE Acknowledged
    BY <2>6 DEF ConfigureHeater, RefuseConfiguration, CallSetFault
  <2>7. ASSUME NEW finite \in BOOLEAN, NEW differs \in BOOLEAN, ConfigureFeedForward(finite, differs) PROVE Acknowledged
    BY <2>7 DEF ConfigureFeedForward, CallSetFault
  <2>8. ASSUME NEW command \in {"off", "suspend"}, CommandPark(command) PROVE Acknowledged
    BY <2>8 DEF CommandPark
  <2>9. CASE CommandOn
    BY <2>9 DEF CommandOn
  <2>10. CASE CommandResetFault
    BY <2>10 DEF CommandResetFault
  <2>11. CASE StartControl
    BY <2>11 DEF StartControl
  <2>12. CASE TakeStatus
    BY <2>12 DEF TakeStatus
  <2>13. CASE RecordFault
    BY <2>13 DEF RecordFault
  <2>14. CASE Park
    BY <2>14 DEF Park
  <2>15. ASSUME NEW b \in Bands, OnSample(b) PROVE Acknowledged
    BY <2>15 DEF OnSample, SampleTemperature
  <2>16. ASSUME NEW b \in Bands, ResetSample(b) PROVE Acknowledged
    BY <2>16 DEF ResetSample, SampleTemperature
  <2>17. ASSUME NEW b \in Bands, Sample(b) PROVE Acknowledged
    BY <2>17 DEF Sample, SampleTemperature
  <2>18. CASE OnRefuse
    BY <2>18 DEF OnRefuse, CallSetFault
  <2>19. ASSUME NEW inRange \in BOOLEAN, OnSet(inRange) PROVE Acknowledged
    BY <2>19 DEF OnSet, CallSetFault, UpdateHeaterState, StateFor, GoodBands
  <2>20. CASE ResetClear
    BY <2>20 DEF ResetClear
  <2>21. CASE ResetDone
    BY <2>21 DEF ResetDone
  <2>22. ASSUME NEW outside \in BOOLEAN, Decide(outside) PROVE Acknowledged
    BY <2>22 DEF Decide, CallSetFault, TooManyBad
  <2>23. CASE Boost
    BY <2>23 DEF Boost
  <2>24. CASE Reboost
    BY <2>24 DEF Reboost, UpdateHeaterState, StateFor
  <2>25. CASE SwitchHeating
    BY <2>25 DEF SwitchHeating, CallSetFault, LowerTimer
  <2>26. CASE SwitchStable
    BY <2>26 DEF SwitchStable, CallSetFault, LowerTimer
  <2>27. ASSUME NEW warm \in BOOLEAN, SwitchOther(warm) PROVE Acknowledged
    BY <2>27 DEF SwitchOther
  <2>28. CASE Settle
    BY <2>28 DEF Settle
  <2>29. ASSUME NEW d \in 0 .. MaxDuty, CheckLatch(d) PROVE Acknowledged
    BY <2>29 DEF CheckLatch, CallSetFault
  <2>30. CASE LimitDuty
    BY <2>30 DEF LimitDuty
  <2>31. CASE WriteDuty
    BY <2>31 DEF WriteDuty
  <2>32. CASE RecheckLatch
    BY <2>32 DEF RecheckLatch
  <2>33. CASE ReadState
    BY <2>33 DEF ReadState
  <2>34. CASE ReadError
    BY <2>34 DEF ReadError
  <2>35. CASE Tick
    BY <2>35 DEF Tick
  <2>36. CASE UNCHANGED vars
    BY <2>36 DEF vars
  <2>37. QED
    BY <2>1, <2>2, <2>3, <2>4, <2>5, <2>6, <2>7, <2>8, <2>9, <2>10, <2>11, <2>12, <2>13, <2>14, <2>15, <2>16, <2>17, <2>18, <2>19, <2>20, <2>21, <2>22, <2>23, <2>24, <2>25, <2>26, <2>27, <2>28, <2>29, <2>30, <2>31, <2>32, <2>33, <2>34, <2>35, <2>36
       DEF Next, HandleFrame, Continue
<1>2. IInv /\ [Next]_vars => [Acknowledged]_vars
  BY <1>1
<1>3. QED
  BY <1>2, Invariance, PTL DEF Spec, FaultIsAcknowledgedOrLatched

-----------------------------------------------------------------------------
\* The host was told the present state and error.
Told == reported = <<state, error>>

\* What the status owes the host: between handlers it has been told or the flag
\* is up; a refused on command and a status being read keep to that, because
\* only an interrupt can have changed the state since they looked at it.
StatusOwed ==
  /\ at = "loop" => statusDirty \/ Told
  /\ at = "onSample" /\ state = "fault" => statusDirty
  /\ at = "onRefuse" /\ state = "fault" => statusDirty \/ Told
  /\ at = "reportError" => statusDirty \/ heldState = state

\* Whenever the main loop has nothing to report the host knows the present state
\* and error, however the interrupt falls between the steps of TakeStatus.
THEOREM StatusIsReported == Spec => []StatusIsNotLost
<1>1. Init => StatusOwed
  BY DEF Init, StatusOwed
<1>2. TypeOK /\ StatusOwed /\ [Next]_vars => StatusOwed'
  <2> SUFFICES ASSUME TypeOK, StatusOwed, [Next]_vars PROVE StatusOwed'
    OBVIOUS
  <2> USE DEF StatusOwed, Told, TypeOK, FlagsTyped, Active, ActiveStates, shared, config, control,
          locals, Goto, ForgetLocals, EndHandler
  <2>1. CASE Ping
    BY <2>1 DEF Ping
  <2>2. CASE ConfigurationReset
    BY <2>2 DEF ConfigurationReset
  <2>3. CASE ConfigurationComplete
    BY <2>3 DEF ConfigurationComplete
  <2>4. ASSUME NEW valid \in BOOLEAN, ConfigureThermistor(valid) PROVE StatusOwed'
    BY <2>4 DEF ConfigureThermistor, RefuseConfiguration, CallSetFault
  <2>5. ASSUME NEW part \in {"A", "B", "C"}, NEW valid \in BOOLEAN, ConfigureModel(part, valid) PROVE StatusOwed'
    BY <2>5 DEF ConfigureModel, RejectModelUpdate, CallSetFault
  <2>6. ASSUME NEW valid \in BOOLEAN, NEW limit \in BadLimits, ConfigureHeater(valid, limit) PROVE StatusOwed'
    BY <2>6 DEF ConfigureHeater, RefuseConfiguration, CallSetFault
  <2>7. ASSUME NEW finite \in BOOLEAN, NEW differs \in BOOLEAN, ConfigureFeedForward(finite, differs) PROVE StatusOwed'
    BY <2>7 DEF ConfigureFeedForward, CallSetFault
  <2>8. ASSUME NEW command \in {"off", "suspend"}, CommandPark(command) PROVE StatusOwed'
    BY <2>8 DEF CommandPark
  <2>9. CASE CommandOn
    BY <2>9 DEF CommandOn
  <2>10. CASE CommandResetFault
    BY <2>10 DEF CommandResetFault
  <2>11. CASE StartControl
    BY <2>11 DEF StartControl
  <2>12. CASE TakeStatus
    BY <2>12 DEF TakeStatus
  <2>13. CASE RecordFault
    BY <2>13 DEF RecordFault
  <2>14. CASE Park
    BY <2>14 DEF Park
  <2>15. ASSUME NEW b \in Bands, OnSample(b) PROVE StatusOwed'
    BY <2>15 DEF OnSample, SampleTemperature
  <2>16. ASSUME NEW b \in Bands, ResetSample(b) PROVE StatusOwed'
    BY <2>16 DEF ResetSample, SampleTemperature
  <2>17. ASSUME NEW b \in Bands, Sample(b) PROVE StatusOwed'
    BY <2>17 DEF Sample, SampleTemperature
  <2>18. CASE OnRefuse
    BY <2>18 DEF OnRefuse, CallSetFault
  <2>19. ASSUME NEW inRange \in BOOLEAN, OnSet(inRange) PROVE StatusOwed'
    BY <2>19 DEF OnSet, CallSetFault, UpdateHeaterState, StateFor, GoodBands
  <2>20. CASE ResetClear
    BY <2>20 DEF ResetClear
  <2>21. CASE ResetDone
    BY <2>21 DEF ResetDone
  <2>22. ASSUME NEW outside \in BOOLEAN, Decide(outside) PROVE StatusOwed'
    BY <2>22 DEF Decide, CallSetFault, TooManyBad
  <2>23. CASE Boost
    BY <2>23 DEF Boost
  <2>24. CASE Reboost
    BY <2>24 DEF Reboost, UpdateHeaterState, StateFor
  <2>25. CASE SwitchHeating
    BY <2>25 DEF SwitchHeating, CallSetFault, LowerTimer
  <2>26. CASE SwitchStable
    BY <2>26 DEF SwitchStable, CallSetFault, LowerTimer
  <2>27. ASSUME NEW warm \in BOOLEAN, SwitchOther(warm) PROVE StatusOwed'
    BY <2>27 DEF SwitchOther
  <2>28. CASE Settle
    BY <2>28 DEF Settle
  <2>29. ASSUME NEW d \in 0 .. MaxDuty, CheckLatch(d) PROVE StatusOwed'
    BY <2>29 DEF CheckLatch, CallSetFault
  <2>30. CASE LimitDuty
    BY <2>30 DEF LimitDuty
  <2>31. CASE WriteDuty
    BY <2>31 DEF WriteDuty
  <2>32. CASE RecheckLatch
    BY <2>32 DEF RecheckLatch
  <2>33. CASE ReadState
    BY <2>33 DEF ReadState
  <2>34. CASE ReadError
    BY <2>34 DEF ReadError
  <2>35. CASE Tick
    BY <2>35 DEF Tick
  <2>36. CASE UNCHANGED vars
    BY <2>36 DEF vars
  <2>37. QED
    BY <2>1, <2>2, <2>3, <2>4, <2>5, <2>6, <2>7, <2>8, <2>9, <2>10, <2>11, <2>12, <2>13, <2>14, <2>15, <2>16, <2>17, <2>18, <2>19, <2>20, <2>21, <2>22, <2>23, <2>24, <2>25, <2>26, <2>27, <2>28, <2>29, <2>30, <2>31, <2>32, <2>33, <2>34, <2>35, <2>36
       DEF Next, HandleFrame, Continue
<1>3. StatusOwed => StatusIsNotLost
  BY DEF StatusOwed, Told, StatusIsNotLost
<1>4. QED
  BY <1>1, <1>2, <1>3, TypeCorrect, PTL DEF Spec

=============================================================================
