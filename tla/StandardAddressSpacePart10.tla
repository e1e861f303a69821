---------------------- MODULE StandardAddressSpacePart10 ----------------------
(* The calls of CreateAddressSpacePart10, in their order: the nodes and references of
   part 10 of the OPC UA specification that the server adds to its address space when
   it starts. A definition is a stretch of the function, named for its first node; of a
   node's attributes only those that the address space or a property reads are kept. *)
EXTENDS StandardCalls

P10_ProgramStateMachineType == <<
  ObjectType(2391, "ProgramStateMachineType", 2771, HasSubtype),
  Links(2391, HasComponent, <<3830, 3835>>),
  Links(2391, HasProperty, <<2392, 2393, 2394, 2395, 2396, 2397, 2398>>),
  Links(2391, HasComponent, <<2399, 3850, 2400, 2402, 2404, 2406>>) >>

P10_ProgramStateMachineType_References == <<
  Links(2391, HasComponent, <<2408, 2410, 2412, 2414, 2416, 2418, 2420, 2422, 2424, 2426,
      2427, 2428, 2429, 2430>>),
  Variable(3830, "CurrentState", 2391, HasComponent, 2760, 21) >>

P10_ProgramStateMachineType_CurrentState_References == <<
  Links(3830, HasProperty, <<3831, 3833>>),
  Links(3830, HasModellingRule, <<78>>),
  Variable(3831, "Id", 3830, HasProperty, 68, 17),
  Links(3831, HasModellingRule, <<78>>),
  Variable(3833, "Number", 3830, HasProperty, 68, 7),
  Links(3833, HasModellingRule, <<78>>),
  Variable(3835, "LastTransition", 2391, HasComponent, 2767, 21),
  Links(3835, HasProperty, <<3836, 3838, 3839>>),
  Links(3835, HasModellingRule, <<78>>) >>

P10_ProgramStateMachineType_LastTransition_Id == <<
  Variable(3836, "Id", 3835, HasProperty, 68, 17),
  Links(3836, HasModellingRule, <<78>>),
  Variable(3838, "Number", 3835, HasProperty, 68, 7),
  Links(3838, HasModellingRule, <<78>>),
  Variable(3839, "TransitionTime", 3835, HasProperty, 68, 294),
  Links(3839, HasModellingRule, <<78>>),
  Variable(2392, "Creatable", 2391, HasProperty, 68, 1),
  Variable(2393, "Deletable", 2391, HasProperty, 68, 1),
  Links(2393, HasModellingRule, <<78>>),
  Variable(2394, "AutoDelete", 2391, HasProperty, 68, 1),
  Links(2394, HasModellingRule, <<79>>) >>

P10_ProgramStateMachineType_RecycleCount == <<
  Variable(2395, "RecycleCount", 2391, HasProperty, 68, 6),
  Links(2395, HasModellingRule, <<78>>),
  Variable(2396, "InstanceCount", 2391, HasProperty, 68, 7),
  Variable(2397, "MaxInstanceCount", 2391, HasProperty, 68, 7),
  Variable(2398, "MaxRecycleCount", 2391, HasProperty, 68, 7),
  Variable(2399, "ProgramDiagnostics", 2391, HasComponent, 2380, 894),
  Links(2399, HasProperty, <<3840, 3841, 3842, 3843, 3844, 3845>>) >>

P10_ProgramStateMachineType_ProgramDiagnostics_References == <<
  Links(2399, HasProperty, <<3846, 3847, 3848, 3849>>),
  Links(2399, HasModellingRule, <<80>>),
  Variable(3840, "CreateSessionId", 2399, HasProperty, 68, 17),
  Links(3840, HasModellingRule, <<78>>),
  Variable(3841, "CreateClientName", 2399, HasProperty, 68, 12),
  Links(3841, HasModellingRule, <<78>>),
  Variable(3842, "InvocationCreationTime", 2399, HasProperty, 68, 294),
  Links(3842, HasModellingRule, <<78>>),
  Variable(3843, "LastTransitionTime", 2399, HasProperty, 68, 294) >>

P10_ProgramStateMachineType_ProgramDiagnostics_LastTransitionTime_References == <<
  Links(3843, HasModellingRule, <<78>>),
  Variable(3844, "LastMethodCall", 2399, HasProperty, 68, 12),
  Links(3844, HasModellingRule, <<78>>),
  Variable(3845, "LastMethodSessionId", 2399, HasProperty, 68, 17),
  Links(3845, HasModellingRule, <<78>>),
  Variable(3846, "LastMethodInputArguments", 2399, HasProperty, 68, 296),
  Links(3846, HasModellingRule, <<78>>),
  Variable(3847, "LastMethodOutputArguments", 2399, HasProperty, 68, 296),
  Links(3847, HasModellingRule, <<78>>),
  Variable(3848, "LastMethodCallTime", 2399, HasProperty, 68, 294),
  Links(3848, HasModellingRule, <<78>>) >>

P10_ProgramStateMachineType_ProgramDiagnostics_LastMethodReturnStatus == <<
  Variable(3849, "LastMethodReturnStatus", 2399, HasProperty, 68, 299),
  Links(3849, HasModellingRule, <<78>>),
  Object(3850, "FinalResultData", 2391, HasComponent, 58),
  Links(3850, HasModellingRule, <<80>>),
  Object(2400, "Ready", 2391, HasComponent, 2307),
  Links(2400, HasProperty, <<2401>>),
  Variable(2401, "StateNumber", 2400, HasProperty, 68, 7),
  Links(2401, HasModellingRule, <<78>>),
  Object(2402, "Running", 2391, HasComponent, 2307),
  Links(2402, HasProperty, <<2403>>) >>

P10_ProgramStateMachineType_Running_StateNumber == <<
  Variable(2403, "StateNumber", 2402, HasProperty, 68, 7),
  Links(2403, HasModellingRule, <<78>>),
  Object(2404, "Suspended", 2391, HasComponent, 2307),
  Links(2404, HasProperty, <<2405>>),
  Variable(2405, "StateNumber", 2404, HasProperty, 68, 7),
  Links(2405, HasModellingRule, <<78>>),
  Object(2406, "Halted", 2391, HasComponent, 2307),
  Links(2406, HasProperty, <<2407>>),
  Variable(2407, "StateNumber", 2406, HasProperty, 68, 7),
  Links(2407, HasModellingRule, <<78>>) >>

P10_ProgramStateMachineType_HaltedToReady == <<
  Object(2408, "HaltedToReady", 2391, HasComponent, 2310),
  Links(2408, HasProperty, <<2409>>),
  Links(2408, FromState, <<2406>>),
  Links(2408, ToState, <<2400>>),
  Links(2408, HasCause, <<2430>>),
  Links(2408, HasEffect, <<2378>>),
  Variable(2409, "TransitionNumber", 2408, HasProperty, 68, 7),
  Links(2409, HasModellingRule, <<78>>),
  Object(2410, "ReadyToRunning", 2391, HasComponent, 2310),
  Links(2410, HasProperty, <<2411>>),
  Links(2410, FromState, <<2400>>),
  Links(2410, ToState, <<2402>>),
  Links(2410, HasCause, <<2426>>) >>

P10_ProgramStateMachineType_ReadyToRunning_References == <<
  Links(2410, HasEffect, <<2378>>),
  Variable(2411, "TransitionNumber", 2410, HasProperty, 68, 7),
  Links(2411, HasModellingRule, <<78>>),
  Object(2412, "RunningToHalted", 2391, HasComponent, 2310),
  Links(2412, HasProperty, <<2413>>),
  Links(2412, FromState, <<2402>>),
  Links(2412, ToState, <<2406>>),
  Links(2412, HasCause, <<2429>>),
  Links(2412, HasEffect, <<2378>>),
  Variable(2413, "TransitionNumber", 2412, HasProperty, 68, 7),
  Links(2413, HasModellingRule, <<78>>),
  Object(2414, "RunningToReady", 2391, HasComponent, 2310) >>

P10_ProgramStateMachineType_RunningToReady_References == <<
  Links(2414, HasProperty, <<2415>>),
  Links(2414, FromState, <<2402>>),
  Links(2414, ToState, <<2400>>),
  Links(2414, HasEffect, <<2378>>),
  Variable(2415, "TransitionNumber", 2414, HasProperty, 68, 7),
  Links(2415, HasModellingRule, <<78>>),
  Object(2416, "RunningToSuspended", 2391, HasComponent, 2310),
  Links(2416, HasProperty, <<2417>>),
  Links(2416, FromState, <<2402>>),
  Links(2416, ToState, <<2404>>),
  Links(2416, HasCause, <<2427>>),
  Links(2416, HasEffect, <<2378>>),
  Variable(2417, "TransitionNumber", 2416, HasProperty, 68, 7) >>

P10_ProgramStateMachineType_RunningToSuspended_TransitionNumber_References == <<
  Links(2417, HasModellingRule, <<78>>),
  Object(2418, "SuspendedToRunning", 2391, HasComponent, 2310),
  Links(2418, HasProperty, <<2419>>),
  Links(2418, FromState, <<2404>>),
  Links(2418, ToState, <<2402>>),
  Links(2418, HasCause, <<2428>>),
  Links(2418, HasEffect, <<2378>>),
  Variable(2419, "TransitionNumber", 2418, HasProperty, 68, 7),
  Links(2419, HasModellingRule, <<78>>),
  Object(2420, "SuspendedToHalted", 2391, HasComponent, 2310),
  Links(2420, HasProperty, <<2421>>),
  Links(2420, FromState, <<2404>>),
  Links(2420, ToState, <<2406>>) >>

P10_ProgramStateMachineType_SuspendedToHalted_References == <<
  Links(2420, HasCause, <<2429>>),
  Links(2420, HasEffect, <<2378>>),
  Variable(2421, "TransitionNumber", 2420, HasProperty, 68, 7),
  Links(2421, HasModellingRule, <<78>>),
  Object(2422, "SuspendedToReady", 2391, HasComponent, 2310),
  Links(2422, HasProperty, <<2423>>),
  Links(2422, FromState, <<2404>>),
  Links(2422, ToState, <<2400>>),
  Links(2422, HasEffect, <<2378>>),
  Variable(2423, "TransitionNumber", 2422, HasProperty, 68, 7),
  Links(2423, HasModellingRule, <<78>>),
  Object(2424, "ReadyToHalted", 2391, HasComponent, 2310) >>

P10_ProgramStateMachineType_ReadyToHalted_References == <<
  Links(2424, HasProperty, <<2425>>),
  Links(2424, FromState, <<2400>>),
  Links(2424, ToState, <<2406>>),
  Links(2424, HasCause, <<2429>>),
  Links(2424, HasEffect, <<2378>>),
  Variable(2425, "TransitionNumber", 2424, HasProperty, 68, 7),
  Links(2425, HasModellingRule, <<78>>),
  ObjectType(2378, "ProgramTransitionEventType", 2311, HasSubtype),
  Links(2378, HasProperty, <<2379>>),
  Variable(2379, "IntermediateResult", 2378, HasProperty, 68, 12),
  Links(2379, HasModellingRule, <<78>>),
  ObjectType(11856, "AuditProgramTransitionEventType", 2315, HasSubtype) >>

P10_AuditProgramTransitionEventType_References == <<
  Links(11856, HasProperty, <<11875>>),
  Variable(11875, "TransitionNumber", 11856, HasProperty, 68, 7),
  Links(11875, HasModellingRule, <<78>>),
  ObjectType(3806, "ProgramTransitionAuditEventType", 2315, HasSubtype),
  Links(3806, HasComponent, <<3825>>),
  Variable(3825, "Transition", 3806, HasComponent, 2767, 21),
  Links(3825, HasProperty, <<3826>>),
  Links(3825, HasModellingRule, <<78>>),
  Variable(3826, "Id", 3825, HasProperty, 68, 17),
  Links(3826, HasModellingRule, <<78>>),
  VariableType(2380, "ProgramDiagnosticType", 63, HasSubtype, 894) >>

P10_ProgramDiagnosticType_References == <<
  Links(2380, HasProperty, <<2381, 2382, 2383, 2384, 2385, 2386, 2387, 2388, 2389, 2390>>),
  Variable(2381, "CreateSessionId", 2380, HasProperty, 68, 17),
  Links(2381, HasModellingRule, <<78>>),
  Variable(2382, "CreateClientName", 2380, HasProperty, 68, 12),
  Links(2382, HasModellingRule, <<78>>) >>

P10_ProgramDiagnosticType_InvocationCreationTime == <<
  Variable(2383, "InvocationCreationTime", 2380, HasProperty, 68, 294),
  Links(2383, HasModellingRule, <<78>>),
  Variable(2384, "LastTransitionTime", 2380, HasProperty, 68, 294),
  Links(2384, HasModellingRule, <<78>>),
  Variable(2385, "LastMethodCall", 2380, HasProperty, 68, 12),
  Links(2385, HasModellingRule, <<78>>),
  Variable(2386, "LastMethodSessionId", 2380, HasProperty, 68, 17),
  Links(2386, HasModellingRule, <<78>>),
  Variable(2387, "LastMethodInputArguments", 2380, HasProperty, 68, 296),
  Links(2387, HasModellingRule, <<78>>),
  Variable(2388, "LastMethodOutputArguments", 2380, HasProperty, 68, 296) >>

P10_ProgramDiagnosticType_LastMethodOutputArguments_References == <<
  Links(2388, HasModellingRule, <<78>>),
  Variable(2389, "LastMethodCallTime", 2380, HasProperty, 68, 294),
  Links(2389, HasModellingRule, <<78>>),
  Variable(2390, "LastMethodReturnStatus", 2380, HasProperty, 68, 299),
  Links(2390, HasModellingRule, <<78>>),
  DataType(894, "ProgramDiagnosticDataType", 22, HasSubtype),
  Object(895, "Default XML", 894, HasEncoding, 76),
  Links(895, HasDescription, <<8882>>),
  Object(896, "Default Binary", 894, HasEncoding, 76),
  Links(896, HasDescription, <<8247>>) >>

(* The stretches of the function. *)
CreateAddressSpacePart10 == <<P10_ProgramStateMachineType,
  P10_ProgramStateMachineType_References,
  P10_ProgramStateMachineType_CurrentState_References,
  P10_ProgramStateMachineType_LastTransition_Id, P10_ProgramStateMachineType_RecycleCount,
  P10_ProgramStateMachineType_ProgramDiagnostics_References,
  P10_ProgramStateMachineType_ProgramDiagnostics_LastTransitionTime_References,
  P10_ProgramStateMachineType_ProgramDiagnostics_LastMethodReturnStatus,
  P10_ProgramStateMachineType_Running_StateNumber,
  P10_ProgramStateMachineType_HaltedToReady,
  P10_ProgramStateMachineType_ReadyToRunning_References,
  P10_ProgramStateMachineType_RunningToReady_References,
  P10_ProgramStateMachineType_RunningToSuspended_TransitionNumber_References,
  P10_ProgramStateMachineType_SuspendedToHalted_References,
  P10_ProgramStateMachineType_ReadyToHalted_References,
  P10_AuditProgramTransitionEventType_References, P10_ProgramDiagnosticType_References,
  P10_ProgramDiagnosticType_InvocationCreationTime,
  P10_ProgramDiagnosticType_LastMethodOutputArguments_References>>
===============================================================================
