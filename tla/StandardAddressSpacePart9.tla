---------------------- MODULE StandardAddressSpacePart9 ----------------------
(* The calls of CreateAddressSpacePart9, in their order: the nodes and references of
   part 9 of the OPC UA specification that the server adds to its address space when
   it starts. A definition is a stretch of the function, named for its first node; of a
   node's attributes only those that the address space or a property reads are kept. *)
EXTENDS StandardCalls

P9_TwoStateVariableType == <<
  VariableType(8995, "TwoStateVariableType", 2755, HasSubtype, 21),
  Links(8995, HasProperty, <<8996, 9000, 9001, 11110, 11111>>),
  Variable(8996, "Id", 8995, HasProperty, 68, 1),
  Links(8996, HasModellingRule, <<78>>),
  Variable(9000, "TransitionTime", 8995, HasProperty, 68, 294),
  Links(9000, HasModellingRule, <<80>>),
  Variable(9001, "EffectiveTransitionTime", 8995, HasProperty, 68, 294),
  Links(9001, HasModellingRule, <<80>>) >>

P9_TwoStateVariableType_TrueState == <<
  Variable(11110, "TrueState", 8995, HasProperty, 68, 21),
  Links(11110, HasModellingRule, <<80>>),
  Variable(11111, "FalseState", 8995, HasProperty, 68, 21),
  Links(11111, HasModellingRule, <<80>>),
  VariableType(9002, "ConditionVariableType", 63, HasSubtype, 12),
  Links(9002, HasProperty, <<9003>>),
  Variable(9003, "SourceTimestamp", 9002, HasProperty, 68, 294),
  Links(9003, HasModellingRule, <<78>>),
  ReferenceType(9004, "HasTrueSubState", 32, HasSubtype),
  ReferenceType(9005, "HasFalseSubState", 32, HasSubtype) >>

P9_ConditionType == <<
  ObjectType(2782, "ConditionType", 2041, HasSubtype),
  Links(2782, HasProperty, <<11112, 11113, 9009, 9010, 3874>>),
  Links(2782, HasComponent, <<9011, 9020, 9022, 9024>>),
  Links(2782, HasProperty, <<9026>>),
  Links(2782, HasComponent, <<9028, 9027, 9029, 3875>>) >>

P9_ConditionType_ConditionClassId == <<
  Variable(11112, "ConditionClassId", 2782, HasProperty, 68, 17),
  Links(11112, HasModellingRule, <<78>>),
  Variable(11113, "ConditionClassName", 2782, HasProperty, 68, 21),
  Links(11113, HasModellingRule, <<78>>),
  Variable(9009, "ConditionName", 2782, HasProperty, 68, 12),
  Links(9009, HasModellingRule, <<78>>),
  Variable(9010, "BranchId", 2782, HasProperty, 68, 17),
  Links(9010, HasModellingRule, <<78>>),
  Variable(3874, "Retain", 2782, HasProperty, 68, 1),
  Links(3874, HasModellingRule, <<78>>),
  Variable(9011, "EnabledState", 2782, HasComponent, 8995, 21) >>

P9_ConditionType_EnabledState_References == <<
  Links(9011, HasProperty, <<9012, 9015, 9016, 9017>>),
  Links(9011, HasModellingRule, <<78>>),
  Variable(9012, "Id", 9011, HasProperty, 68, 1),
  Links(9012, HasModellingRule, <<78>>),
  Variable(9015, "EffectiveDisplayName", 9011, HasProperty, 68, 21),
  Links(9015, HasModellingRule, <<80>>),
  Variable(9016, "TransitionTime", 9011, HasProperty, 68, 294),
  Links(9016, HasModellingRule, <<80>>),
  Variable(9017, "EffectiveTransitionTime", 9011, HasProperty, 68, 294) >>

P9_ConditionType_EnabledState_EffectiveTransitionTime_References == <<
  Links(9017, HasModellingRule, <<80>>),
  Variable(9020, "Quality", 2782, HasComponent, 9002, 19),
  Links(9020, HasProperty, <<9021>>),
  Links(9020, HasModellingRule, <<78>>),
  Variable(9021, "SourceTimestamp", 9020, HasProperty, 68, 294),
  Links(9021, HasModellingRule, <<78>>),
  Variable(9022, "LastSeverity", 2782, HasComponent, 9002, 5),
  Links(9022, HasProperty, <<9023>>),
  Links(9022, HasModellingRule, <<78>>),
  Variable(9023, "SourceTimestamp", 9022, HasProperty, 68, 294),
  Links(9023, HasModellingRule, <<78>>) >>

P9_ConditionType_Comment == <<
  Variable(9024, "Comment", 2782, HasComponent, 9002, 21),
  Links(9024, HasProperty, <<9025>>),
  Links(9024, HasModellingRule, <<78>>),
  Variable(9025, "SourceTimestamp", 9024, HasProperty, 68, 294),
  Links(9025, HasModellingRule, <<78>>),
  Variable(9026, "ClientUserId", 2782, HasProperty, 68, 12),
  Links(9026, HasModellingRule, <<78>>),
  Variable(9030, "InputArguments", 9029, HasProperty, 68, 296),
  Links(9030, HasModellingRule, <<78>>),
  Variable(3876, "InputArguments", 3875, HasProperty, 68, 296),
  Links(3876, HasModellingRule, <<78>>) >>

P9_DialogConditionType == <<
  ObjectType(2830, "DialogConditionType", 2782, HasSubtype),
  Links(2830, HasComponent, <<9035, 9055>>),
  Links(2830, HasProperty, <<2831, 9064, 9065, 9066, 9067, 9068>>),
  Links(2830, HasComponent, <<9069>>),
  Variable(9035, "EnabledState", 2830, HasComponent, 8995, 21),
  Links(9035, HasProperty, <<9036>>),
  Links(9035, HasTrueSubState, <<9055>>),
  Links(9035, HasModellingRule, <<78>>) >>

P9_DialogConditionType_EnabledState_Id == <<
  Variable(9036, "Id", 9035, HasProperty, 68, 1),
  Links(9036, HasModellingRule, <<78>>),
  Variable(9055, "DialogState", 2830, HasComponent, 8995, 21),
  Links(9055, HasProperty, <<9056, 9060>>),
  Links(9055, HasModellingRule, <<78>>),
  Variable(9056, "Id", 9055, HasProperty, 68, 1),
  Links(9056, HasModellingRule, <<78>>),
  Variable(9060, "TransitionTime", 9055, HasProperty, 68, 294),
  Links(9060, HasModellingRule, <<80>>),
  Variable(2831, "Prompt", 2830, HasProperty, 68, 21) >>

P9_DialogConditionType_Prompt_References == <<
  Links(2831, HasModellingRule, <<78>>),
  Variable(9064, "ResponseOptionSet", 2830, HasProperty, 68, 21),
  Links(9064, HasModellingRule, <<78>>),
  Variable(9065, "DefaultResponse", 2830, HasProperty, 68, 6),
  Links(9065, HasModellingRule, <<78>>),
  Variable(9066, "OkResponse", 2830, HasProperty, 68, 6),
  Links(9066, HasModellingRule, <<78>>),
  Variable(9067, "CancelResponse", 2830, HasProperty, 68, 6),
  Links(9067, HasModellingRule, <<78>>),
  Variable(9068, "LastResponse", 2830, HasProperty, 68, 6),
  Links(9068, HasModellingRule, <<78>>) >>

P9_DialogConditionType_Respond_InputArguments == <<
  Variable(9070, "InputArguments", 9069, HasProperty, 68, 296),
  Links(9070, HasModellingRule, <<78>>),
  ObjectType(2881, "AcknowledgeableConditionType", 2782, HasSubtype),
  Links(2881, HasComponent, <<9073, 9093, 9102, 9111, 9113>>),
  Variable(9073, "EnabledState", 2881, HasComponent, 8995, 21),
  Links(9073, HasProperty, <<9074>>),
  Links(9073, HasTrueSubState, <<9093, 9102>>),
  Links(9073, HasModellingRule, <<78>>) >>

P9_AcknowledgeableConditionType_EnabledState_Id == <<
  Variable(9074, "Id", 9073, HasProperty, 68, 1),
  Links(9074, HasModellingRule, <<78>>),
  Variable(9093, "AckedState", 2881, HasComponent, 8995, 21),
  Links(9093, HasProperty, <<9094, 9098>>),
  Links(9093, HasModellingRule, <<78>>),
  Variable(9094, "Id", 9093, HasProperty, 68, 1),
  Links(9094, HasModellingRule, <<78>>),
  Variable(9098, "TransitionTime", 9093, HasProperty, 68, 294),
  Links(9098, HasModellingRule, <<80>>),
  Variable(9102, "ConfirmedState", 2881, HasComponent, 8995, 21),
  Links(9102, HasProperty, <<9103>>) >>

P9_AcknowledgeableConditionType_ConfirmedState_References == <<
  Links(9102, HasProperty, <<9107>>),
  Links(9102, HasModellingRule, <<80>>),
  Variable(9103, "Id", 9102, HasProperty, 68, 1),
  Links(9103, HasModellingRule, <<78>>),
  Variable(9107, "TransitionTime", 9102, HasProperty, 68, 294),
  Links(9107, HasModellingRule, <<80>>),
  Variable(9112, "InputArguments", 9111, HasProperty, 68, 296),
  Links(9112, HasModellingRule, <<78>>),
  Variable(9114, "InputArguments", 9113, HasProperty, 68, 296),
  Links(9114, HasModellingRule, <<78>>),
  ObjectType(2915, "AlarmConditionType", 2881, HasSubtype) >>

P9_AlarmConditionType_References == <<
  Links(2915, HasComponent, <<9118, 9160>>),
  Links(2915, HasProperty, <<11120>>),
  Links(2915, HasComponent, <<9169, 9178>>),
  Links(2915, HasProperty, <<9215, 9216>>),
  Variable(9118, "EnabledState", 2915, HasComponent, 8995, 21),
  Links(9118, HasProperty, <<9119>>),
  Links(9118, HasTrueSubState, <<9160, 9169, 9178>>),
  Links(9118, HasModellingRule, <<78>>),
  Variable(9119, "Id", 9118, HasProperty, 68, 1) >>

P9_AlarmConditionType_EnabledState_Id_References == <<
  Links(9119, HasModellingRule, <<78>>),
  Variable(9160, "ActiveState", 2915, HasComponent, 8995, 21),
  Links(9160, HasProperty, <<9161, 9164, 9165, 9166>>),
  Links(9160, HasModellingRule, <<78>>),
  Variable(9161, "Id", 9160, HasProperty, 68, 1),
  Links(9161, HasModellingRule, <<78>>),
  Variable(9164, "EffectiveDisplayName", 9160, HasProperty, 68, 21),
  Links(9164, HasModellingRule, <<80>>),
  Variable(9165, "TransitionTime", 9160, HasProperty, 68, 294) >>

P9_AlarmConditionType_ActiveState_TransitionTime_References == <<
  Links(9165, HasModellingRule, <<80>>),
  Variable(9166, "EffectiveTransitionTime", 9160, HasProperty, 68, 294),
  Links(9166, HasModellingRule, <<80>>),
  Variable(11120, "InputNode", 2915, HasProperty, 68, 17),
  Links(11120, HasModellingRule, <<78>>),
  Variable(9169, "SuppressedState", 2915, HasComponent, 8995, 21),
  Links(9169, HasProperty, <<9170, 9174>>),
  Links(9169, HasModellingRule, <<80>>),
  Variable(9170, "Id", 9169, HasProperty, 68, 1),
  Links(9170, HasModellingRule, <<78>>) >>

P9_AlarmConditionType_SuppressedState_TransitionTime == <<
  Variable(9174, "TransitionTime", 9169, HasProperty, 68, 294),
  Links(9174, HasModellingRule, <<80>>),
  Object(9178, "ShelvingState", 2915, HasComponent, 2929),
  Links(9178, HasComponent, <<9179, 9184>>),
  Links(9178, HasProperty, <<9189>>),
  Links(9178, HasComponent, <<9211, 9212, 9213>>),
  Links(9178, HasModellingRule, <<80>>),
  Variable(9179, "CurrentState", 9178, HasComponent, 2760, 21),
  Links(9179, HasProperty, <<9180>>),
  Links(9179, HasModellingRule, <<78>>) >>

P9_AlarmConditionType_ShelvingState_CurrentState_Id == <<
  Variable(9180, "Id", 9179, HasProperty, 68, 17),
  Links(9180, HasModellingRule, <<78>>),
  Variable(9184, "LastTransition", 9178, HasComponent, 2767, 21),
  Links(9184, HasProperty, <<9185, 9188>>),
  Links(9184, HasModellingRule, <<80>>),
  Variable(9185, "Id", 9184, HasProperty, 68, 17),
  Links(9185, HasModellingRule, <<78>>),
  Variable(9188, "TransitionTime", 9184, HasProperty, 68, 294),
  Links(9188, HasModellingRule, <<80>>),
  Variable(9189, "UnshelveTime", 9178, HasProperty, 68, 290) >>

P9_AlarmConditionType_ShelvingState_UnshelveTime_References == <<
  Links(9189, HasModellingRule, <<78>>),
  Variable(9214, "InputArguments", 9213, HasProperty, 68, 296),
  Links(9214, HasModellingRule, <<78>>),
  Variable(9215, "SuppressedOrShelved", 2915, HasProperty, 68, 1),
  Links(9215, HasModellingRule, <<78>>),
  Variable(9216, "MaxTimeShelved", 2915, HasProperty, 68, 290),
  Links(9216, HasModellingRule, <<80>>),
  ObjectType(2929, "ShelvedStateMachineType", 2771, HasSubtype),
  Links(2929, HasProperty, <<9115>>),
  Links(2929, HasComponent, <<2930, 2932, 2933>>) >>

P9_ShelvedStateMachineType_References == <<
  Links(2929, HasComponent, <<2935, 2936, 2940, 2942, 2943, 2945, 2947, 2948, 2949>>),
  Variable(9115, "UnshelveTime", 2929, HasProperty, 68, 290),
  Links(9115, HasModellingRule, <<78>>),
  Object(2930, "Unshelved", 2929, HasComponent, 2307),
  Links(2930, HasProperty, <<6098>>) >>

P9_ShelvedStateMachineType_Unshelved_StateNumber == <<
  Variable(6098, "StateNumber", 2930, HasProperty, 68, 7),
  Links(6098, HasModellingRule, <<78>>),
  Object(2932, "TimedShelved", 2929, HasComponent, 2307),
  Links(2932, HasProperty, <<6100>>),
  Variable(6100, "StateNumber", 2932, HasProperty, 68, 7),
  Links(6100, HasModellingRule, <<78>>),
  Object(2933, "OneShotShelved", 2929, HasComponent, 2307),
  Links(2933, HasProperty, <<6101>>),
  Variable(6101, "StateNumber", 2933, HasProperty, 68, 7),
  Links(6101, HasModellingRule, <<78>>),
  Object(2935, "UnshelvedToTimedShelved", 2929, HasComponent, 2310) >>

P9_ShelvedStateMachineType_UnshelvedToTimedShelved_References == <<
  Links(2935, HasProperty, <<11322>>),
  Links(2935, FromState, <<2930>>),
  Links(2935, ToState, <<2932>>),
  Links(2935, HasEffect, <<2915>>),
  Links(2935, HasCause, <<2949>>),
  Variable(11322, "TransitionNumber", 2935, HasProperty, 68, 7),
  Links(11322, HasModellingRule, <<78>>),
  Object(2936, "UnshelvedToOneShotShelved", 2929, HasComponent, 2310),
  Links(2936, HasProperty, <<11323>>),
  Links(2936, FromState, <<2930>>),
  Links(2936, ToState, <<2933>>),
  Links(2936, HasEffect, <<2915>>),
  Links(2936, HasCause, <<2948>>) >>

P9_ShelvedStateMachineType_UnshelvedToOneShotShelved_TransitionNumber == <<
  Variable(11323, "TransitionNumber", 2936, HasProperty, 68, 7),
  Links(11323, HasModellingRule, <<78>>),
  Object(2940, "TimedShelvedToUnshelved", 2929, HasComponent, 2310),
  Links(2940, HasProperty, <<11324>>),
  Links(2940, FromState, <<2932>>),
  Links(2940, ToState, <<2930>>),
  Links(2940, HasEffect, <<2915>>),
  Links(2940, HasCause, <<2947>>),
  Variable(11324, "TransitionNumber", 2940, HasProperty, 68, 7),
  Links(11324, HasModellingRule, <<78>>),
  Object(2942, "TimedShelvedToOneShotShelved", 2929, HasComponent, 2310),
  Links(2942, HasProperty, <<11325>>),
  Links(2942, FromState, <<2932>>) >>

P9_ShelvedStateMachineType_TimedShelvedToOneShotShelved_References == <<
  Links(2942, ToState, <<2933>>),
  Links(2942, HasEffect, <<2915>>),
  Links(2942, HasCause, <<2948>>),
  Variable(11325, "TransitionNumber", 2942, HasProperty, 68, 7),
  Links(11325, HasModellingRule, <<78>>),
  Object(2943, "OneShotShelvedToUnshelved", 2929, HasComponent, 2310),
  Links(2943, HasProperty, <<11326>>),
  Links(2943, FromState, <<2933>>),
  Links(2943, ToState, <<2930>>),
  Links(2943, HasEffect, <<2915>>),
  Links(2943, HasCause, <<2947>>),
  Variable(11326, "TransitionNumber", 2943, HasProperty, 68, 7),
  Links(11326, HasModellingRule, <<78>>) >>

P9_ShelvedStateMachineType_OneShotShelvedToTimedShelved == <<
  Object(2945, "OneShotShelvedToTimedShelved", 2929, HasComponent, 2310),
  Links(2945, HasProperty, <<11327>>),
  Links(2945, FromState, <<2933>>),
  Links(2945, ToState, <<2932>>),
  Links(2945, HasEffect, <<2915>>),
  Links(2945, HasCause, <<2949>>),
  Variable(11327, "TransitionNumber", 2945, HasProperty, 68, 7),
  Links(11327, HasModellingRule, <<78>>),
  Variable(2991, "InputArguments", 2949, HasProperty, 68, 296),
  Links(2991, HasModellingRule, <<78>>),
  ObjectType(2955, "LimitAlarmType", 2915, HasSubtype),
  Links(2955, HasProperty, <<11124, 11125>>) >>

P9_LimitAlarmType_References == <<
  Links(2955, HasProperty, <<11126, 11127>>),
  Variable(11124, "HighHighLimit", 2955, HasProperty, 68, 11),
  Links(11124, HasModellingRule, <<80>>),
  Variable(11125, "HighLimit", 2955, HasProperty, 68, 11),
  Links(11125, HasModellingRule, <<80>>),
  Variable(11126, "LowLimit", 2955, HasProperty, 68, 11),
  Links(11126, HasModellingRule, <<80>>),
  Variable(11127, "LowLowLimit", 2955, HasProperty, 68, 11),
  Links(11127, HasModellingRule, <<80>>),
  ObjectType(9318, "ExclusiveLimitStateMachineType", 2771, HasSubtype) >>

P9_ExclusiveLimitStateMachineType_References == <<
  Links(9318, HasComponent, <<9329, 9331, 9333, 9335, 9337, 9338, 9339, 9340>>),
  Object(9329, "HighHigh", 9318, HasComponent, 2307),
  Links(9329, HasProperty, <<9330>>),
  Variable(9330, "StateNumber", 9329, HasProperty, 68, 7),
  Links(9330, HasModellingRule, <<78>>),
  Object(9331, "High", 9318, HasComponent, 2307) >>

P9_ExclusiveLimitStateMachineType_High_References == <<
  Links(9331, HasProperty, <<9332>>),
  Variable(9332, "StateNumber", 9331, HasProperty, 68, 7),
  Links(9332, HasModellingRule, <<78>>),
  Object(9333, "Low", 9318, HasComponent, 2307),
  Links(9333, HasProperty, <<9334>>),
  Variable(9334, "StateNumber", 9333, HasProperty, 68, 7),
  Links(9334, HasModellingRule, <<78>>),
  Object(9335, "LowLow", 9318, HasComponent, 2307),
  Links(9335, HasProperty, <<9336>>),
  Variable(9336, "StateNumber", 9335, HasProperty, 68, 7),
  Links(9336, HasModellingRule, <<78>>) >>

P9_ExclusiveLimitStateMachineType_LowLowToLow == <<
  Object(9337, "LowLowToLow", 9318, HasComponent, 2310),
  Links(9337, HasProperty, <<11340>>),
  Links(9337, FromState, <<9335>>),
  Links(9337, ToState, <<9333>>),
  Variable(11340, "TransitionNumber", 9337, HasProperty, 68, 7),
  Links(11340, HasModellingRule, <<78>>),
  Object(9338, "LowToLowLow", 9318, HasComponent, 2310),
  Links(9338, HasProperty, <<11341>>),
  Links(9338, FromState, <<9333>>),
  Links(9338, ToState, <<9335>>),
  Variable(11341, "TransitionNumber", 9338, HasProperty, 68, 7),
  Links(11341, HasModellingRule, <<78>>) >>

P9_ExclusiveLimitStateMachineType_HighHighToHigh == <<
  Object(9339, "HighHighToHigh", 9318, HasComponent, 2310),
  Links(9339, HasProperty, <<11342>>),
  Links(9339, FromState, <<9329>>),
  Links(9339, ToState, <<9331>>),
  Variable(11342, "TransitionNumber", 9339, HasProperty, 68, 7),
  Links(11342, HasModellingRule, <<78>>),
  Object(9340, "HighToHighHigh", 9318, HasComponent, 2310),
  Links(9340, HasProperty, <<11343>>),
  Links(9340, FromState, <<9331>>),
  Links(9340, ToState, <<9329>>),
  Variable(11343, "TransitionNumber", 9340, HasProperty, 68, 7),
  Links(11343, HasModellingRule, <<78>>) >>

P9_ExclusiveLimitAlarmType == <<
  ObjectType(9341, "ExclusiveLimitAlarmType", 2955, HasSubtype),
  Links(9341, HasComponent, <<9398, 9455>>),
  Variable(9398, "ActiveState", 9341, HasComponent, 8995, 21),
  Links(9398, HasProperty, <<9399>>),
  Links(9398, HasTrueSubState, <<9455>>),
  Links(9398, HasModellingRule, <<78>>),
  Variable(9399, "Id", 9398, HasProperty, 68, 1),
  Links(9399, HasModellingRule, <<78>>),
  Object(9455, "LimitState", 9341, HasComponent, 9318),
  Links(9455, HasComponent, <<9456, 9461>>),
  Links(9455, HasModellingRule, <<78>>) >>

P9_ExclusiveLimitAlarmType_LimitState_CurrentState == <<
  Variable(9456, "CurrentState", 9455, HasComponent, 2760, 21),
  Links(9456, HasProperty, <<9457>>),
  Links(9456, HasModellingRule, <<78>>),
  Variable(9457, "Id", 9456, HasProperty, 68, 17),
  Links(9457, HasModellingRule, <<78>>),
  Variable(9461, "LastTransition", 9455, HasComponent, 2767, 21),
  Links(9461, HasProperty, <<9462, 9465>>),
  Links(9461, HasModellingRule, <<80>>),
  Variable(9462, "Id", 9461, HasProperty, 68, 17),
  Links(9462, HasModellingRule, <<78>>),
  Variable(9465, "TransitionTime", 9461, HasProperty, 68, 294) >>

P9_ExclusiveLimitAlarmType_LimitState_LastTransition_TransitionTime_References == <<
  Links(9465, HasModellingRule, <<80>>),
  ObjectType(9906, "NonExclusiveLimitAlarmType", 2955, HasSubtype),
  Links(9906, HasComponent, <<9963, 10020, 10029, 10038, 10047>>),
  Variable(9963, "ActiveState", 9906, HasComponent, 8995, 21),
  Links(9963, HasProperty, <<9964>>),
  Links(9963, HasTrueSubState, <<10020, 10029, 10038, 10047>>),
  Links(9963, HasModellingRule, <<78>>) >>

P9_NonExclusiveLimitAlarmType_ActiveState_Id == <<
  Variable(9964, "Id", 9963, HasProperty, 68, 1),
  Links(9964, HasModellingRule, <<78>>),
  Variable(10020, "HighHighState", 9906, HasComponent, 8995, 21),
  Links(10020, HasProperty, <<10021, 10025>>),
  Links(10020, HasModellingRule, <<80>>),
  Variable(10021, "Id", 10020, HasProperty, 68, 1),
  Links(10021, HasModellingRule, <<78>>),
  Variable(10025, "TransitionTime", 10020, HasProperty, 68, 294),
  Links(10025, HasModellingRule, <<80>>),
  Variable(10029, "HighState", 9906, HasComponent, 8995, 21),
  Links(10029, HasProperty, <<10030>>) >>

P9_NonExclusiveLimitAlarmType_HighState_References == <<
  Links(10029, HasProperty, <<10034>>),
  Links(10029, HasModellingRule, <<80>>),
  Variable(10030, "Id", 10029, HasProperty, 68, 1),
  Links(10030, HasModellingRule, <<78>>),
  Variable(10034, "TransitionTime", 10029, HasProperty, 68, 294),
  Links(10034, HasModellingRule, <<80>>),
  Variable(10038, "LowState", 9906, HasComponent, 8995, 21),
  Links(10038, HasProperty, <<10039, 10043>>),
  Links(10038, HasModellingRule, <<80>>),
  Variable(10039, "Id", 10038, HasProperty, 68, 1),
  Links(10039, HasModellingRule, <<78>>) >>

P9_NonExclusiveLimitAlarmType_LowState_TransitionTime == <<
  Variable(10043, "TransitionTime", 10038, HasProperty, 68, 294),
  Links(10043, HasModellingRule, <<80>>),
  Variable(10047, "LowLowState", 9906, HasComponent, 8995, 21),
  Links(10047, HasProperty, <<10048, 10052>>),
  Links(10047, HasModellingRule, <<80>>),
  Variable(10048, "Id", 10047, HasProperty, 68, 1),
  Links(10048, HasModellingRule, <<78>>),
  Variable(10052, "TransitionTime", 10047, HasProperty, 68, 294),
  Links(10052, HasModellingRule, <<80>>),
  ObjectType(10060, "NonExclusiveLevelAlarmType", 9906, HasSubtype) >>

P9_ExclusiveLevelAlarmType == <<
  ObjectType(9482, "ExclusiveLevelAlarmType", 9341, HasSubtype),
  ObjectType(10368, "NonExclusiveDeviationAlarmType", 9906, HasSubtype),
  Links(10368, HasProperty, <<10522>>),
  Variable(10522, "SetpointNode", 10368, HasProperty, 68, 17),
  Links(10522, HasModellingRule, <<78>>),
  ObjectType(9764, "ExclusiveDeviationAlarmType", 9341, HasSubtype),
  Links(9764, HasProperty, <<9905>>),
  Variable(9905, "SetpointNode", 9764, HasProperty, 68, 17),
  Links(9905, HasModellingRule, <<78>>),
  ObjectType(10214, "NonExclusiveRateOfChangeAlarmType", 9906, HasSubtype),
  ObjectType(9623, "ExclusiveRateOfChangeAlarmType", 9341, HasSubtype) >>

P9_DiscreteAlarmType == <<
  ObjectType(10523, "DiscreteAlarmType", 2915, HasSubtype),
  ObjectType(10637, "OffNormalAlarmType", 10523, HasSubtype),
  Links(10637, HasProperty, <<11158>>),
  Variable(11158, "NormalState", 10637, HasProperty, 68, 17),
  Links(11158, HasModellingRule, <<78>>),
  ObjectType(11753, "SystemOffNormalAlarmType", 10637, HasSubtype),
  ObjectType(10751, "TripAlarmType", 10637, HasSubtype),
  ObjectType(11163, "BaseConditionClassType", 58, HasSubtype),
  ObjectType(11164, "ProcessConditionClassType", 11163, HasSubtype),
  ObjectType(11165, "MaintenanceConditionClassType", 11163, HasSubtype),
  ObjectType(11166, "SystemConditionClassType", 11163, HasSubtype) >>

P9_AuditConditionEventType == <<
  ObjectType(2790, "AuditConditionEventType", 2127, HasSubtype),
  ObjectType(2803, "AuditConditionEnableEventType", 2790, HasSubtype),
  ObjectType(2829, "AuditConditionCommentEventType", 2790, HasSubtype),
  Links(2829, HasProperty, <<4170, 11851>>),
  Variable(4170, "EventId", 2829, HasProperty, 68, 15),
  Links(4170, HasModellingRule, <<78>>),
  Variable(11851, "Comment", 2829, HasProperty, 68, 21),
  Links(11851, HasModellingRule, <<78>>),
  ObjectType(8927, "AuditConditionRespondEventType", 2790, HasSubtype),
  Links(8927, HasProperty, <<11852>>) >>

P9_AuditConditionRespondEventType_SelectedResponse == <<
  Variable(11852, "SelectedResponse", 8927, HasProperty, 68, 6),
  Links(11852, HasModellingRule, <<78>>),
  ObjectType(8944, "AuditConditionAcknowledgeEventType", 2790, HasSubtype),
  Links(8944, HasProperty, <<8945, 11853>>),
  Variable(8945, "EventId", 8944, HasProperty, 68, 15),
  Links(8945, HasModellingRule, <<78>>),
  Variable(11853, "Comment", 8944, HasProperty, 68, 21),
  Links(11853, HasModellingRule, <<78>>),
  ObjectType(8961, "AuditConditionConfirmEventType", 2790, HasSubtype),
  Links(8961, HasProperty, <<8962, 11854>>) >>

P9_AuditConditionConfirmEventType_EventId == <<
  Variable(8962, "EventId", 8961, HasProperty, 68, 15),
  Links(8962, HasModellingRule, <<78>>),
  Variable(11854, "Comment", 8961, HasProperty, 68, 21),
  Links(11854, HasModellingRule, <<78>>),
  ObjectType(11093, "AuditConditionShelvingEventType", 2790, HasSubtype),
  Links(11093, HasProperty, <<11855>>),
  Variable(11855, "ShelvingTime", 11093, HasProperty, 68, 290),
  Links(11855, HasModellingRule, <<78>>),
  ObjectType(2787, "RefreshStartEventType", 2130, HasSubtype),
  ObjectType(2788, "RefreshEndEventType", 2130, HasSubtype),
  ObjectType(2789, "RefreshRequiredEventType", 2130, HasSubtype) >>

P9_HasCondition == <<
  ReferenceType(9006, "HasCondition", 32, HasSubtype) >>

(* The stretches of the function. *)
CreateAddressSpacePart9 == <<P9_TwoStateVariableType, P9_TwoStateVariableType_TrueState,
  P9_ConditionType, P9_ConditionType_ConditionClassId,
  P9_ConditionType_EnabledState_References,
  P9_ConditionType_EnabledState_EffectiveTransitionTime_References,
  P9_ConditionType_Comment, P9_DialogConditionType, P9_DialogConditionType_EnabledState_Id,
  P9_DialogConditionType_Prompt_References, P9_DialogConditionType_Respond_InputArguments,
  P9_AcknowledgeableConditionType_EnabledState_Id,
  P9_AcknowledgeableConditionType_ConfirmedState_References,
  P9_AlarmConditionType_References, P9_AlarmConditionType_EnabledState_Id_References,
  P9_AlarmConditionType_ActiveState_TransitionTime_References,
  P9_AlarmConditionType_SuppressedState_TransitionTime,
  P9_AlarmConditionType_ShelvingState_CurrentState_Id,
  P9_AlarmConditionType_ShelvingState_UnshelveTime_References,
  P9_ShelvedStateMachineType_References, P9_ShelvedStateMachineType_Unshelved_StateNumber,
  P9_ShelvedStateMachineType_UnshelvedToTimedShelved_References,
  P9_ShelvedStateMachineType_UnshelvedToOneShotShelved_TransitionNumber,
  P9_ShelvedStateMachineType_TimedShelvedToOneShotShelved_References,
  P9_ShelvedStateMachineType_OneShotShelvedToTimedShelved, P9_LimitAlarmType_References,
  P9_ExclusiveLimitStateMachineType_References,
  P9_ExclusiveLimitStateMachineType_High_References,
  P9_ExclusiveLimitStateMachineType_LowLowToLow,
  P9_ExclusiveLimitStateMachineType_HighHighToHigh, P9_ExclusiveLimitAlarmType,
  P9_ExclusiveLimitAlarmType_LimitState_CurrentState,
  P9_ExclusiveLimitAlarmType_LimitState_LastTransition_TransitionTime_References,
  P9_NonExclusiveLimitAlarmType_ActiveState_Id,
  P9_NonExclusiveLimitAlarmType_HighState_References,
  P9_NonExclusiveLimitAlarmType_LowState_TransitionTime, P9_ExclusiveLevelAlarmType,
  P9_DiscreteAlarmType, P9_AuditConditionEventType,
  P9_AuditConditionRespondEventType_SelectedResponse,
  P9_AuditConditionConfirmEventType_EventId, P9_HasCondition>>
==============================================================================
