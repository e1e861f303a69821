---------------------- MODULE StandardAddressSpacePart8 ----------------------
(* The calls of CreateAddressSpacePart8, in their order: the nodes and references of
   part 8 of the OPC UA specification that the server adds to its address space when
   it starts. A definition is a stretch of the function, named for its first node; of a
   node's attributes only those that the address space or a property reads are kept. *)
EXTENDS StandardCalls

P8_DataItemType == <<
  VariableType(2365, "DataItemType", 63, HasSubtype, 12),
  Links(2365, HasProperty, <<2366, 2367>>),
  Variable(2366, "Definition", 2365, HasProperty, 68, 12),
  Links(2366, HasModellingRule, <<80>>),
  Variable(2367, "ValuePrecision", 2365, HasProperty, 68, 11),
  Links(2367, HasModellingRule, <<80>>),
  VariableType(2368, "AnalogItemType", 2365, HasSubtype, 26),
  Links(2368, HasProperty, <<2370, 2369, 2371>>) >>

P8_AnalogItemType_InstrumentRange == <<
  Variable(2370, "InstrumentRange", 2368, HasProperty, 68, 884),
  Links(2370, HasModellingRule, <<80>>),
  Variable(2369, "EURange", 2368, HasProperty, 68, 884),
  Links(2369, HasModellingRule, <<78>>),
  Variable(2371, "EngineeringUnits", 2368, HasProperty, 68, 887),
  Links(2371, HasModellingRule, <<80>>),
  VariableType(2372, "DiscreteItemType", 2365, HasSubtype, 12),
  VariableType(2373, "TwoStateDiscreteType", 2372, HasSubtype, 1),
  Links(2373, HasProperty, <<2374, 2375>>),
  Variable(2374, "FalseState", 2373, HasProperty, 68, 21) >>

P8_TwoStateDiscreteType_FalseState_References == <<
  Links(2374, HasModellingRule, <<78>>),
  Variable(2375, "TrueState", 2373, HasProperty, 68, 21),
  Links(2375, HasModellingRule, <<78>>),
  VariableType(2376, "MultiStateDiscreteType", 2372, HasSubtype, 28),
  Links(2376, HasProperty, <<2377>>),
  Variable(2377, "EnumStrings", 2376, HasProperty, 68, 21),
  Links(2377, HasModellingRule, <<78>>),
  VariableType(11238, "MultiStateValueDiscreteType", 2372, HasSubtype, 26),
  Links(11238, HasProperty, <<11241, 11461>>),
  Variable(11241, "EnumValues", 11238, HasProperty, 68, 7594) >>

P8_MultiStateValueDiscreteType_EnumValues_References == <<
  Links(11241, HasModellingRule, <<78>>),
  Variable(11461, "ValueAsText", 11238, HasProperty, 68, 21),
  Links(11461, HasModellingRule, <<78>>),
  VariableType(12021, "ArrayItemType", 2365, HasSubtype, 12),
  Links(12021, HasProperty, <<12024, 12025, 12026, 12027, 12028>>),
  Variable(12024, "InstrumentRange", 12021, HasProperty, 68, 884),
  Links(12024, HasModellingRule, <<80>>),
  Variable(12025, "EURange", 12021, HasProperty, 68, 884) >>

P8_ArrayItemType_EURange_References == <<
  Links(12025, HasModellingRule, <<78>>),
  Variable(12026, "EngineeringUnits", 12021, HasProperty, 68, 887),
  Links(12026, HasModellingRule, <<78>>),
  Variable(12027, "Title", 12021, HasProperty, 68, 21),
  Links(12027, HasModellingRule, <<78>>),
  Variable(12028, "AxisScaleType", 12021, HasProperty, 68, 12077),
  Links(12028, HasModellingRule, <<78>>),
  VariableType(12029, "YArrayItemType", 12021, HasSubtype, 12),
  Links(12029, HasProperty, <<12037>>),
  Variable(12037, "XAxisDefinition", 12029, HasProperty, 68, 12079),
  Links(12037, HasModellingRule, <<78>>) >>

P8_XYArrayItemType == <<
  VariableType(12038, "XYArrayItemType", 12021, HasSubtype, 12080),
  Links(12038, HasProperty, <<12046>>),
  Variable(12046, "XAxisDefinition", 12038, HasProperty, 68, 12079),
  Links(12046, HasModellingRule, <<78>>),
  VariableType(12047, "ImageItemType", 12021, HasSubtype, 12),
  Links(12047, HasProperty, <<12055, 12056>>),
  Variable(12055, "XAxisDefinition", 12047, HasProperty, 68, 12079),
  Links(12055, HasModellingRule, <<78>>),
  Variable(12056, "YAxisDefinition", 12047, HasProperty, 68, 12079),
  Links(12056, HasModellingRule, <<78>>) >>

P8_CubeItemType == <<
  VariableType(12057, "CubeItemType", 12021, HasSubtype, 12),
  Links(12057, HasProperty, <<12065, 12066, 12067>>),
  Variable(12065, "XAxisDefinition", 12057, HasProperty, 68, 12079),
  Links(12065, HasModellingRule, <<78>>),
  Variable(12066, "YAxisDefinition", 12057, HasProperty, 68, 12079),
  Links(12066, HasModellingRule, <<78>>),
  Variable(12067, "ZAxisDefinition", 12057, HasProperty, 68, 12079),
  Links(12067, HasModellingRule, <<78>>),
  VariableType(12068, "NDimensionArrayItemType", 12021, HasSubtype, 12) >>

P8_NDimensionArrayItemType_References == <<
  Links(12068, HasProperty, <<12076>>),
  Variable(12076, "AxisDefinition", 12068, HasProperty, 68, 12079),
  Links(12076, HasModellingRule, <<78>>),
  DataType(884, "Range", 22, HasSubtype),
  DataType(887, "EUInformation", 22, HasSubtype),
  DataType(12077, "AxisScaleEnumeration", 29, HasSubtype),
  Links(12077, HasProperty, <<12078>>),
  Variable(12078, "EnumStrings", 12077, HasProperty, 68, 21),
  Links(12078, HasModellingRule, <<78>>),
  DataType(12171, "ComplexNumberType", 22, HasSubtype),
  DataType(12172, "DoubleComplexNumberType", 22, HasSubtype) >>

P8_AxisInformation == <<
  DataType(12079, "AxisInformation", 22, HasSubtype),
  DataType(12080, "XVType", 22, HasSubtype),
  Object(885, "Default XML", 884, HasEncoding, 76),
  Links(885, HasDescription, <<8873>>),
  Object(888, "Default XML", 887, HasEncoding, 76),
  Links(888, HasDescription, <<8876>>),
  Object(12173, "Default XML", 12171, HasEncoding, 76),
  Links(12173, HasDescription, <<12175>>),
  Object(12174, "Default XML", 12172, HasEncoding, 76),
  Links(12174, HasDescription, <<12178>>),
  Object(12081, "Default XML", 12079, HasEncoding, 76) >>

P8_AxisInformation_Encoding_DefaultXml_References == <<
  Links(12081, HasDescription, <<12083>>),
  Object(12082, "Default XML", 12080, HasEncoding, 76),
  Links(12082, HasDescription, <<12086>>),
  Object(886, "Default Binary", 884, HasEncoding, 76),
  Links(886, HasDescription, <<8238>>),
  Object(889, "Default Binary", 887, HasEncoding, 76),
  Links(889, HasDescription, <<8241>>),
  Object(12181, "Default Binary", 12171, HasEncoding, 76),
  Links(12181, HasDescription, <<12183>>),
  Object(12182, "Default Binary", 12172, HasEncoding, 76),
  Links(12182, HasDescription, <<12186>>) >>

P8_AxisInformation_Encoding_DefaultBinary == <<
  Object(12089, "Default Binary", 12079, HasEncoding, 76),
  Links(12089, HasDescription, <<12091>>),
  Object(12090, "Default Binary", 12080, HasEncoding, 76),
  Links(12090, HasDescription, <<12094>>) >>

(* The stretches of the function. *)
CreateAddressSpacePart8 == <<P8_DataItemType, P8_AnalogItemType_InstrumentRange,
  P8_TwoStateDiscreteType_FalseState_References,
  P8_MultiStateValueDiscreteType_EnumValues_References,
  P8_ArrayItemType_EURange_References, P8_XYArrayItemType, P8_CubeItemType,
  P8_NDimensionArrayItemType_References, P8_AxisInformation,
  P8_AxisInformation_Encoding_DefaultXml_References,
  P8_AxisInformation_Encoding_DefaultBinary>>
==============================================================================
