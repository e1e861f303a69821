---------------------- MODULE StandardAddressSpacePart11 ----------------------
(* The calls of CreateAddressSpacePart11, in their order: the nodes and references of
   part 11 of the OPC UA specification that the server adds to its address space when
   it starts. A definition is a stretch of the function, named for its first node; of a
   node's attributes only those that the address space or a property reads are kept. *)
EXTENDS StandardCalls

P11_HasHistoricalConfiguration == <<
  ReferenceType(56, "HasHistoricalConfiguration", 44, HasSubtype),
  Object(11192, "HistoryServerCapabilities", 2268, HasComponent, 2330),
  Links(11192, HasProperty, <<11193, 11242, 11273, 11274, 11196, 11197, 11198, 11199,
      11200, 11281, 11282, 11283, 11502>>) >>

P11_HistoryServerCapabilities_References == <<
  Links(11192, HasProperty, <<11275>>),
  Links(11192, HasComponent, <<11201>>),
  Variable(11193, "AccessHistoryDataCapability", 11192, HasProperty, 68, 1),
  Variable(11242, "AccessHistoryEventsCapability", 11192, HasProperty, 68, 1),
  Variable(11273, "MaxReturnDataValues", 11192, HasProperty, 68, 7),
  Variable(11274, "MaxReturnEventValues", 11192, HasProperty, 68, 7),
  Variable(11196, "InsertDataCapability", 11192, HasProperty, 68, 1),
  Variable(11197, "ReplaceDataCapability", 11192, HasProperty, 68, 1),
  Variable(11198, "UpdateDataCapability", 11192, HasProperty, 68, 1),
  Variable(11199, "DeleteRawCapability", 11192, HasProperty, 68, 1) >>

P11_HistoryServerCapabilities_DeleteAtTimeCapability == <<
  Variable(11200, "DeleteAtTimeCapability", 11192, HasProperty, 68, 1),
  Variable(11281, "InsertEventCapability", 11192, HasProperty, 68, 1),
  Variable(11282, "ReplaceEventCapability", 11192, HasProperty, 68, 1),
  Variable(11283, "UpdateEventCapability", 11192, HasProperty, 68, 1),
  Variable(11502, "DeleteEventCapability", 11192, HasProperty, 68, 1),
  Variable(11275, "InsertAnnotationCapability", 11192, HasProperty, 68, 1),
  Object(11201, "AggregateFunctions", 11192, HasComponent, 61),
  Variable(11214, "Annotations", 0, None, 68, 891),
  ObjectType(2318, "HistoricalDataConfigurationType", 58, HasSubtype),
  Links(2318, HasComponent, <<3059>>) >>

P11_HistoricalDataConfigurationType_References == <<
  Links(2318, HasComponent, <<11876>>),
  Links(2318, HasProperty, <<2323, 2324, 2325, 2326, 2327, 2328, 11499, 11500>>),
  Object(3059, "AggregateConfiguration", 2318, HasComponent, 11187),
  Links(3059, HasProperty, <<11168, 11169, 11170, 11171>>),
  Links(3059, HasModellingRule, <<78>>) >>

P11_HistoricalDataConfigurationType_AggregateConfiguration_TreatUncertainAsBad == <<
  Variable(11168, "TreatUncertainAsBad", 3059, HasProperty, 68, 1),
  Links(11168, HasModellingRule, <<78>>),
  Variable(11169, "PercentDataBad", 3059, HasProperty, 68, 3),
  Links(11169, HasModellingRule, <<78>>),
  Variable(11170, "PercentDataGood", 3059, HasProperty, 68, 3),
  Links(11170, HasModellingRule, <<78>>),
  Variable(11171, "UseSlopedExtrapolation", 3059, HasProperty, 68, 1),
  Links(11171, HasModellingRule, <<78>>),
  Object(11876, "AggregateFunctions", 2318, HasComponent, 61),
  Links(11876, HasModellingRule, <<80>>),
  Variable(2323, "Stepped", 2318, HasProperty, 68, 1) >>

P11_HistoricalDataConfigurationType_Stepped_References == <<
  Links(2323, HasModellingRule, <<78>>),
  Variable(2324, "Definition", 2318, HasProperty, 68, 12),
  Links(2324, HasModellingRule, <<80>>),
  Variable(2325, "MaxTimeInterval", 2318, HasProperty, 68, 290),
  Links(2325, HasModellingRule, <<80>>),
  Variable(2326, "MinTimeInterval", 2318, HasProperty, 68, 290),
  Links(2326, HasModellingRule, <<80>>),
  Variable(2327, "ExceptionDeviation", 2318, HasProperty, 68, 11),
  Links(2327, HasModellingRule, <<80>>),
  Variable(2328, "ExceptionDeviationFormat", 2318, HasProperty, 68, 890),
  Links(2328, HasModellingRule, <<80>>) >>

P11_HistoricalDataConfigurationType_StartOfArchive == <<
  Variable(11499, "StartOfArchive", 2318, HasProperty, 68, 294),
  Links(11499, HasModellingRule, <<80>>),
  Variable(11500, "StartOfOnlineArchive", 2318, HasProperty, 68, 294),
  Links(11500, HasModellingRule, <<80>>),
  Object(11202, "HA Configuration", 0, None, 2318),
  Links(11202, HasComponent, <<11203>>),
  Links(11202, HasProperty, <<11208>>),
  Object(11203, "AggregateConfiguration", 11202, HasComponent, 11187),
  Links(11203, HasProperty, <<11204, 11205, 11206, 11207>>) >>

P11_HAConfiguration_AggregateConfiguration_TreatUncertainAsBad == <<
  Variable(11204, "TreatUncertainAsBad", 11203, HasProperty, 68, 1),
  Variable(11205, "PercentDataBad", 11203, HasProperty, 68, 3),
  Variable(11206, "PercentDataGood", 11203, HasProperty, 68, 3),
  Variable(11207, "UseSlopedExtrapolation", 11203, HasProperty, 68, 1),
  Variable(11208, "Stepped", 11202, HasProperty, 68, 1),
  Variable(11215, "HistoricalEventFilter", 0, None, 68, 725),
  ObjectType(2330, "HistoryServerCapabilitiesType", 58, HasSubtype),
  Links(2330, HasProperty, <<2331, 2332, 11268, 11269>>) >>

P11_HistoryServerCapabilitiesType_References == <<
  Links(2330, HasProperty, <<2334, 2335, 2336, 2337, 2338, 11278, 11279, 11280, 11501, 11270>>),
  Links(2330, HasComponent, <<11172>>),
  Variable(2331, "AccessHistoryDataCapability", 2330, HasProperty, 68, 1),
  Links(2331, HasModellingRule, <<78>>),
  Variable(2332, "AccessHistoryEventsCapability", 2330, HasProperty, 68, 1) >>

P11_HistoryServerCapabilitiesType_AccessHistoryEventsCapability_References == <<
  Links(2332, HasModellingRule, <<78>>),
  Variable(11268, "MaxReturnDataValues", 2330, HasProperty, 68, 7),
  Links(11268, HasModellingRule, <<78>>),
  Variable(11269, "MaxReturnEventValues", 2330, HasProperty, 68, 7),
  Links(11269, HasModellingRule, <<78>>),
  Variable(2334, "InsertDataCapability", 2330, HasProperty, 68, 1),
  Links(2334, HasModellingRule, <<78>>),
  Variable(2335, "ReplaceDataCapability", 2330, HasProperty, 68, 1),
  Links(2335, HasModellingRule, <<78>>),
  Variable(2336, "UpdateDataCapability", 2330, HasProperty, 68, 1),
  Links(2336, HasModellingRule, <<78>>) >>

P11_HistoryServerCapabilitiesType_DeleteRawCapability == <<
  Variable(2337, "DeleteRawCapability", 2330, HasProperty, 68, 1),
  Links(2337, HasModellingRule, <<78>>),
  Variable(2338, "DeleteAtTimeCapability", 2330, HasProperty, 68, 1),
  Links(2338, HasModellingRule, <<78>>),
  Variable(11278, "InsertEventCapability", 2330, HasProperty, 68, 1),
  Links(11278, HasModellingRule, <<78>>),
  Variable(11279, "ReplaceEventCapability", 2330, HasProperty, 68, 1),
  Links(11279, HasModellingRule, <<78>>),
  Variable(11280, "UpdateEventCapability", 2330, HasProperty, 68, 1),
  Links(11280, HasModellingRule, <<78>>),
  Variable(11501, "DeleteEventCapability", 2330, HasProperty, 68, 1) >>

P11_HistoryServerCapabilitiesType_DeleteEventCapability_References == <<
  Links(11501, HasModellingRule, <<78>>),
  Variable(11270, "InsertAnnotationCapability", 2330, HasProperty, 68, 1),
  Links(11270, HasModellingRule, <<78>>),
  Object(11172, "AggregateFunctions", 2330, HasComponent, 61),
  Links(11172, HasModellingRule, <<78>>),
  ObjectType(2999, "AuditHistoryEventUpdateEventType", 2104, HasSubtype),
  Links(2999, HasProperty, <<3025, 3028, 3003, 3029, 3030>>),
  Variable(3025, "UpdatedNode", 2999, HasProperty, 68, 17) >>

P11_AuditHistoryEventUpdateEventType_UpdatedNode_References == <<
  Links(3025, HasModellingRule, <<78>>),
  Variable(3028, "PerformInsertReplace", 2999, HasProperty, 68, 11293),
  Links(3028, HasModellingRule, <<78>>),
  Variable(3003, "Filter", 2999, HasProperty, 68, 725),
  Links(3003, HasModellingRule, <<78>>),
  Variable(3029, "NewValues", 2999, HasProperty, 68, 920),
  Links(3029, HasModellingRule, <<78>>),
  Variable(3030, "OldValues", 2999, HasProperty, 68, 920),
  Links(3030, HasModellingRule, <<78>>),
  ObjectType(3006, "AuditHistoryValueUpdateEventType", 2104, HasSubtype),
  Links(3006, HasProperty, <<3026>>) >>

P11_AuditHistoryValueUpdateEventType_References == <<
  Links(3006, HasProperty, <<3031, 3032, 3033>>),
  Variable(3026, "UpdatedNode", 3006, HasProperty, 68, 17),
  Links(3026, HasModellingRule, <<78>>),
  Variable(3031, "PerformInsertReplace", 3006, HasProperty, 68, 11293),
  Links(3031, HasModellingRule, <<78>>),
  Variable(3032, "NewValues", 3006, HasProperty, 68, 23),
  Links(3032, HasModellingRule, <<78>>),
  Variable(3033, "OldValues", 3006, HasProperty, 68, 23),
  Links(3033, HasModellingRule, <<78>>) >>

P11_AuditHistoryDeleteEventType == <<
  ObjectType(3012, "AuditHistoryDeleteEventType", 2104, HasSubtype),
  Links(3012, HasProperty, <<3027>>),
  Variable(3027, "UpdatedNode", 3012, HasProperty, 68, 17),
  Links(3027, HasModellingRule, <<78>>),
  ObjectType(3014, "AuditHistoryRawModifyDeleteEventType", 3012, HasSubtype),
  Links(3014, HasProperty, <<3015, 3016, 3017, 3034>>),
  Variable(3015, "IsDeleteModified", 3014, HasProperty, 68, 1),
  Links(3015, HasModellingRule, <<78>>),
  Variable(3016, "StartTime", 3014, HasProperty, 68, 294) >>

P11_AuditHistoryRawModifyDeleteEventType_StartTime_References == <<
  Links(3016, HasModellingRule, <<78>>),
  Variable(3017, "EndTime", 3014, HasProperty, 68, 294),
  Links(3017, HasModellingRule, <<78>>),
  Variable(3034, "OldValues", 3014, HasProperty, 68, 23),
  Links(3034, HasModellingRule, <<78>>),
  ObjectType(3019, "AuditHistoryAtTimeDeleteEventType", 3012, HasSubtype),
  Links(3019, HasProperty, <<3020, 3021>>),
  Variable(3020, "ReqTimes", 3019, HasProperty, 68, 294),
  Links(3020, HasModellingRule, <<78>>),
  Variable(3021, "OldValues", 3019, HasProperty, 68, 23) >>

P11_AuditHistoryAtTimeDeleteEventType_OldValues_References == <<
  Links(3021, HasModellingRule, <<78>>),
  ObjectType(3022, "AuditHistoryEventDeleteEventType", 3012, HasSubtype),
  Links(3022, HasProperty, <<3023, 3024>>),
  Variable(3023, "EventIds", 3022, HasProperty, 68, 15),
  Links(3023, HasModellingRule, <<78>>),
  Variable(3024, "OldValues", 3022, HasProperty, 68, 920),
  Links(3024, HasModellingRule, <<78>>),
  DataType(891, "Annotation", 22, HasSubtype),
  DataType(890, "ExceptionDeviationFormat", 29, HasSubtype),
  Links(890, HasProperty, <<7614>>) >>

P11_ExceptionDeviationFormat_EnumStrings == <<
  Variable(7614, "EnumStrings", 890, HasProperty, 68, 21),
  Links(7614, HasModellingRule, <<78>>),
  Object(892, "Default XML", 891, HasEncoding, 76),
  Links(892, HasDescription, <<8879>>),
  Object(893, "Default Binary", 891, HasEncoding, 76),
  Links(893, HasDescription, <<8244>>) >>

(* The stretches of the function. *)
CreateAddressSpacePart11 == <<P11_HasHistoricalConfiguration,
  P11_HistoryServerCapabilities_References,
  P11_HistoryServerCapabilities_DeleteAtTimeCapability,
  P11_HistoricalDataConfigurationType_References,
  P11_HistoricalDataConfigurationType_AggregateConfiguration_TreatUncertainAsBad,
  P11_HistoricalDataConfigurationType_Stepped_References,
  P11_HistoricalDataConfigurationType_StartOfArchive,
  P11_HAConfiguration_AggregateConfiguration_TreatUncertainAsBad,
  P11_HistoryServerCapabilitiesType_References,
  P11_HistoryServerCapabilitiesType_AccessHistoryEventsCapability_References,
  P11_HistoryServerCapabilitiesType_DeleteRawCapability,
  P11_HistoryServerCapabilitiesType_DeleteEventCapability_References,
  P11_AuditHistoryEventUpdateEventType_UpdatedNode_References,
  P11_AuditHistoryValueUpdateEventType_References, P11_AuditHistoryDeleteEventType,
  P11_AuditHistoryRawModifyDeleteEventType_StartTime_References,
  P11_AuditHistoryAtTimeDeleteEventType_OldValues_References,
  P11_ExceptionDeviationFormat_EnumStrings>>
===============================================================================
