---------------------- MODULE StandardAddressSpacePart3 ----------------------
(* The calls of CreateAddressSpacePart3, in their order: the nodes and references of
   part 3 of the OPC UA specification that the server adds to its address space when
   it starts. A definition is a stretch of the function, named for its first node; of a
   node's attributes only those that the address space or a property reads are kept. *)
EXTENDS StandardCalls

P3_DefaultBinary == <<
  Object(3062, "Default Binary", 0, None, 58),
  Object(3063, "Default XML", 0, None, 58),
  DataType(24, "BaseDataType", 0, None),
  DataType(26, "Number", 24, HasSubtype),
  DataType(27, "Integer", 26, HasSubtype),
  DataType(28, "UInteger", 27, HasSubtype),
  DataType(29, "Enumeration", 24, HasSubtype),
  DataType(1, "Boolean", 24, HasSubtype),
  DataType(2, "SByte", 27, HasSubtype),
  DataType(3, "Byte", 28, HasSubtype) >>

P3_Int16 == <<
  DataType(4, "Int16", 27, HasSubtype),
  DataType(5, "UInt16", 28, HasSubtype),
  DataType(6, "Int32", 27, HasSubtype),
  DataType(7, "UInt32", 28, HasSubtype),
  DataType(8, "Int64", 27, HasSubtype),
  DataType(9, "UInt64", 28, HasSubtype),
  DataType(10, "Float", 26, HasSubtype),
  DataType(11, "Double", 26, HasSubtype),
  DataType(12, "String", 24, HasSubtype),
  DataType(13, "DateTime", 24, HasSubtype) >>

P3_Guid == <<
  DataType(14, "Guid", 24, HasSubtype),
  DataType(15, "ByteString", 24, HasSubtype),
  DataType(16, "XmlElement", 24, HasSubtype),
  DataType(17, "NodeId", 24, HasSubtype),
  DataType(20, "QualifiedName", 24, HasSubtype),
  DataType(21, "LocalizedText", 24, HasSubtype),
  DataType(22, "Structure", 24, HasSubtype),
  DataType(30, "Image", 15, HasSubtype),
  ReferenceType(31, "References", 0, None) >>

P3_NonHierarchicalReferences == <<
  ReferenceType(32, "NonHierarchicalReferences", 31, HasSubtype),
  ReferenceType(33, "HierarchicalReferences", 31, HasSubtype),
  ReferenceType(34, "HasChild", 33, HasSubtype),
  ReferenceType(35, "Organizes", 33, HasSubtype),
  ReferenceType(36, "HasEventSource", 33, HasSubtype),
  ReferenceType(37, "HasModellingRule", 32, HasSubtype),
  ReferenceType(38, "HasEncoding", 32, HasSubtype),
  ReferenceType(39, "HasDescription", 32, HasSubtype) >>

P3_HasTypeDefinition == <<
  ReferenceType(40, "HasTypeDefinition", 32, HasSubtype),
  ReferenceType(41, "GeneratesEvent", 32, HasSubtype),
  ReferenceType(3065, "AlwaysGeneratesEvent", 32, HasSubtype),
  ReferenceType(44, "Aggregates", 34, HasSubtype),
  ReferenceType(45, "HasSubtype", 34, HasSubtype),
  ReferenceType(46, "HasProperty", 44, HasSubtype),
  ReferenceType(47, "HasComponent", 44, HasSubtype),
  ReferenceType(48, "HasNotifier", 36, HasSubtype) >>

P3_HasOrderedComponent == <<
  ReferenceType(49, "HasOrderedComponent", 47, HasSubtype),
  DataType(120, "NamingRuleType", 29, HasSubtype),
  Links(120, HasProperty, <<12169>>),
  Variable(12169, "EnumValues", 120, HasProperty, 68, 7594),
  Links(12169, HasModellingRule, <<78>>),
  Variable(3068, "NodeVersion", 0, None, 68, 12),
  Variable(12170, "ViewVersion", 0, None, 68, 7),
  Variable(3067, "Icon", 0, None, 68, 30),
  Variable(3069, "LocalTime", 0, None, 68, 8912),
  Variable(3070, "AllowNulls", 0, None, 68, 1) >>

P3_ValueAsText == <<
  Variable(11433, "ValueAsText", 0, None, 68, 21),
  Variable(11498, "MaxStringLength", 0, None, 68, 7),
  Variable(11512, "MaxArrayLength", 0, None, 68, 7),
  Variable(11513, "EngineeringUnits", 0, None, 68, 887),
  Variable(11432, "EnumStrings", 0, None, 68, 21),
  Variable(3071, "EnumValues", 0, None, 68, 7594),
  Variable(3072, "InputArguments", 0, None, 68, 296),
  Variable(3073, "OutputArguments", 0, None, 68, 296),
  DataType(2000, "ImageBMP", 30, HasSubtype),
  DataType(2001, "ImageGIF", 30, HasSubtype) >>

P3_ImageJPG == <<
  DataType(2002, "ImageJPG", 30, HasSubtype),
  DataType(2003, "ImagePNG", 30, HasSubtype),
  DataType(256, "IdType", 29, HasSubtype),
  Links(256, HasProperty, <<7591>>),
  Variable(7591, "EnumStrings", 256, HasProperty, 68, 21),
  Links(7591, HasModellingRule, <<78>>),
  DataType(257, "NodeClass", 29, HasSubtype),
  Links(257, HasProperty, <<11878>>),
  Variable(11878, "EnumValues", 257, HasProperty, 68, 7594),
  Links(11878, HasModellingRule, <<78>>),
  DataType(296, "Argument", 22, HasSubtype) >>

P3_EnumValueType == <<
  DataType(7594, "EnumValueType", 22, HasSubtype),
  DataType(290, "Duration", 11, HasSubtype),
  DataType(294, "UtcTime", 13, HasSubtype),
  DataType(295, "LocaleId", 12, HasSubtype),
  DataType(8912, "TimeZoneDataType", 22, HasSubtype),
  Object(297, "Default XML", 296, HasEncoding, 76),
  Links(297, HasDescription, <<8285>>),
  Object(7616, "Default XML", 7594, HasEncoding, 76),
  Links(7616, HasDescription, <<8291>>),
  Object(8913, "Default XML", 8912, HasEncoding, 76) >>

P3_TimeZoneDataType_Encoding_DefaultXml_References == <<
  Links(8913, HasDescription, <<8918>>),
  Object(298, "Default Binary", 296, HasEncoding, 76),
  Links(298, HasDescription, <<7650>>),
  Object(8251, "Default Binary", 7594, HasEncoding, 76),
  Links(8251, HasDescription, <<7656>>),
  Object(8917, "Default Binary", 8912, HasEncoding, 76),
  Links(8917, HasDescription, <<8914>>) >>

(* The stretches of the function. *)
CreateAddressSpacePart3 == <<P3_DefaultBinary, P3_Int16, P3_Guid,
  P3_NonHierarchicalReferences, P3_HasTypeDefinition, P3_HasOrderedComponent,
  P3_ValueAsText, P3_ImageJPG, P3_EnumValueType,
  P3_TimeZoneDataType_Encoding_DefaultXml_References>>
==============================================================================
