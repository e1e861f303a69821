---------------------- MODULE StandardAddressSpacePart5 ----------------------
(* The calls of CreateAddressSpacePart5, in their order: the nodes and references of
   part 5 of the OPC UA specification that the server adds to its address space when
   it starts. A definition is a stretch of the function, named for its first node; of a
   node's attributes only those that the address space or a property reads are kept. *)
EXTENDS StandardCalls

P5_FromState == <<
  ReferenceType(51, "FromState", 32, HasSubtype),
  ReferenceType(52, "ToState", 32, HasSubtype),
  ReferenceType(53, "HasCause", 32, HasSubtype),
  ReferenceType(54, "HasEffect", 32, HasSubtype),
  ReferenceType(117, "HasSubStateMachine", 32, HasSubtype),
  ObjectType(58, "BaseObjectType", 0, None),
  ObjectType(61, "FolderType", 58, HasSubtype),
  VariableType(62, "BaseVariableType", 0, None, 12),
  VariableType(63, "BaseDataVariableType", 62, HasSubtype, 12) >>

P5_PropertyType == <<
  VariableType(68, "PropertyType", 62, HasSubtype, 12),
  VariableType(69, "DataTypeDescriptionType", 63, HasSubtype, 12),
  Links(69, HasProperty, <<104, 105>>),
  Variable(104, "DataTypeVersion", 69, HasProperty, 68, 12),
  Links(104, HasModellingRule, <<80>>),
  Variable(105, "DictionaryFragment", 69, HasProperty, 68, 15),
  Links(105, HasModellingRule, <<80>>),
  VariableType(72, "DataTypeDictionaryType", 63, HasSubtype, 15),
  Links(72, HasProperty, <<106, 107>>) >>

P5_DataTypeDictionaryType_DataTypeVersion == <<
  Variable(106, "DataTypeVersion", 72, HasProperty, 68, 12),
  Links(106, HasModellingRule, <<80>>),
  Variable(107, "NamespaceUri", 72, HasProperty, 68, 12),
  Links(107, HasModellingRule, <<80>>),
  ObjectType(75, "DataTypeSystemType", 58, HasSubtype),
  ObjectType(76, "DataTypeEncodingType", 58, HasSubtype),
  ObjectType(77, "ModellingRuleType", 58, HasSubtype),
  Links(77, HasProperty, <<111>>),
  Variable(111, "NamingRule", 77, HasProperty, 68, 120),
  Links(111, HasModellingRule, <<78>>) >>

P5_ModellingRule_Mandatory == <<
  Object(78, "Mandatory", 0, None, 77),
  Links(78, HasProperty, <<112>>),
  Variable(112, "NamingRule", 78, HasProperty, 68, 120),
  Object(80, "Optional", 0, None, 77),
  Links(80, HasProperty, <<113>>),
  Variable(113, "NamingRule", 80, HasProperty, 68, 120),
  Object(83, "ExposesItsArray", 0, None, 77),
  Links(83, HasProperty, <<114>>),
  Variable(114, "NamingRule", 83, HasProperty, 68, 120),
  Object(79, "MandatoryShared", 0, None, 77) >>

P5_ModellingRule_MandatoryShared_References == <<
  Links(79, HasProperty, <<116>>),
  Variable(116, "NamingRule", 79, HasProperty, 68, 120),
  Object(11508, "OptionalPlaceholder", 0, None, 77),
  Links(11508, HasProperty, <<11509>>),
  Variable(11509, "NamingRule", 11508, HasProperty, 68, 120),
  Object(11510, "MandatoryPlaceholder", 0, None, 77),
  Links(11510, HasProperty, <<11511>>),
  Variable(11511, "NamingRule", 11510, HasProperty, 68, 120),
  Object(84, "Root", 0, None, 61),
  Object(85, "Objects", 84, Organizes, 61) >>

P5_TypesFolder == <<
  Object(86, "Types", 84, Organizes, 61),
  Object(87, "Views", 84, Organizes, 61),
  Object(88, "ObjectTypes", 86, Organizes, 61),
  Links(88, Organizes, <<58>>),
  Object(89, "VariableTypes", 86, Organizes, 61),
  Links(89, Organizes, <<62>>),
  Object(90, "DataTypes", 86, Organizes, 61),
  Links(90, Organizes, <<24>>),
  Object(91, "ReferenceTypes", 86, Organizes, 61),
  Links(91, Organizes, <<31>>) >>

P5_XmlSchema_TypeSystem == <<
  Object(92, "XML Schema", 90, Organizes, 75),
  Object(93, "OPC Binary", 90, Organizes, 75),
  ObjectType(2004, "ServerType", 58, HasSubtype),
  Links(2004, HasProperty, <<2005, 2006>>),
  Links(2004, HasComponent, <<2007>>),
  Links(2004, HasProperty, <<2008, 2742>>),
  Links(2004, HasComponent, <<2009, 2010, 2011, 2012, 11527, 11489>>) >>

P5_ServerType_ServerArray == <<
  Variable(2005, "ServerArray", 2004, HasProperty, 68, 12),
  Links(2005, HasModellingRule, <<78>>),
  Variable(2006, "NamespaceArray", 2004, HasProperty, 68, 12),
  Links(2006, HasModellingRule, <<78>>),
  Variable(2007, "ServerStatus", 2004, HasComponent, 2138, 862),
  Links(2007, HasComponent, <<3074, 3075, 3076, 3077, 3084, 3085>>),
  Links(2007, HasModellingRule, <<78>>) >>

P5_ServerType_ServerStatus_StartTime == <<
  Variable(3074, "StartTime", 2007, HasComponent, 63, 294),
  Links(3074, HasModellingRule, <<78>>),
  Variable(3075, "CurrentTime", 2007, HasComponent, 63, 294),
  Links(3075, HasModellingRule, <<78>>),
  Variable(3076, "State", 2007, HasComponent, 63, 852),
  Links(3076, HasModellingRule, <<78>>),
  Variable(3077, "BuildInfo", 2007, HasComponent, 3051, 338),
  Links(3077, HasComponent, <<3078, 3079, 3080, 3081, 3082, 3083>>) >>

P5_ServerType_ServerStatus_BuildInfo_References == <<
  Links(3077, HasModellingRule, <<78>>),
  Variable(3078, "ProductUri", 3077, HasComponent, 63, 12),
  Links(3078, HasModellingRule, <<78>>),
  Variable(3079, "ManufacturerName", 3077, HasComponent, 63, 12),
  Links(3079, HasModellingRule, <<78>>),
  Variable(3080, "ProductName", 3077, HasComponent, 63, 12),
  Links(3080, HasModellingRule, <<78>>),
  Variable(3081, "SoftwareVersion", 3077, HasComponent, 63, 12),
  Links(3081, HasModellingRule, <<78>>),
  Variable(3082, "BuildNumber", 3077, HasComponent, 63, 12) >>

P5_ServerType_ServerStatus_BuildInfo_BuildNumber_References == <<
  Links(3082, HasModellingRule, <<78>>),
  Variable(3083, "BuildDate", 3077, HasComponent, 63, 294),
  Links(3083, HasModellingRule, <<78>>),
  Variable(3084, "SecondsTillShutdown", 2007, HasComponent, 63, 7),
  Links(3084, HasModellingRule, <<78>>),
  Variable(3085, "ShutdownReason", 2007, HasComponent, 63, 21),
  Links(3085, HasModellingRule, <<78>>),
  Variable(2008, "ServiceLevel", 2004, HasProperty, 68, 3),
  Links(2008, HasModellingRule, <<78>>),
  Variable(2742, "Auditing", 2004, HasProperty, 68, 1) >>

P5_ServerType_Auditing_References == <<
  Links(2742, HasModellingRule, <<78>>),
  Object(2009, "ServerCapabilities", 2004, HasComponent, 2013),
  Links(2009, HasProperty, <<3086, 3087, 3088, 3089, 3090, 3091, 3092>>),
  Links(2009, HasComponent, <<3093, 3094>>),
  Links(2009, HasModellingRule, <<78>>),
  Variable(3086, "ServerProfileArray", 2009, HasProperty, 68, 12),
  Links(3086, HasModellingRule, <<78>>) >>

P5_ServerType_ServerCapabilities_LocaleIdArray == <<
  Variable(3087, "LocaleIdArray", 2009, HasProperty, 68, 295),
  Links(3087, HasModellingRule, <<78>>),
  Variable(3088, "MinSupportedSampleRate", 2009, HasProperty, 68, 290),
  Links(3088, HasModellingRule, <<78>>),
  Variable(3089, "MaxBrowseContinuationPoints", 2009, HasProperty, 68, 5),
  Links(3089, HasModellingRule, <<78>>),
  Variable(3090, "MaxQueryContinuationPoints", 2009, HasProperty, 68, 5),
  Links(3090, HasModellingRule, <<78>>),
  Variable(3091, "MaxHistoryContinuationPoints", 2009, HasProperty, 68, 5),
  Links(3091, HasModellingRule, <<78>>) >>

P5_ServerType_ServerCapabilities_SoftwareCertificates == <<
  Variable(3092, "SoftwareCertificates", 2009, HasProperty, 68, 344),
  Links(3092, HasModellingRule, <<78>>),
  Object(3093, "ModellingRules", 2009, HasComponent, 61),
  Links(3093, HasModellingRule, <<78>>),
  Object(3094, "AggregateFunctions", 2009, HasComponent, 61),
  Links(3094, HasModellingRule, <<78>>),
  Object(2010, "ServerDiagnostics", 2004, HasComponent, 2020),
  Links(2010, HasComponent, <<3095, 3110, 3111>>),
  Links(2010, HasProperty, <<3114>>),
  Links(2010, HasModellingRule, <<78>>) >>

P5_ServerType_ServerDiagnostics_ServerDiagnosticsSummary == <<
  Variable(3095, "ServerDiagnosticsSummary", 2010, HasComponent, 2150, 859),
  Links(3095, HasComponent, <<3096, 3097, 3098, 3099, 3100, 3101, 3102, 3104, 3105, 3106,
      3107, 3108>>),
  Links(3095, HasModellingRule, <<78>>) >>

P5_ServerType_ServerDiagnostics_ServerDiagnosticsSummary_ServerViewCount == <<
  Variable(3096, "ServerViewCount", 3095, HasComponent, 63, 7),
  Links(3096, HasModellingRule, <<78>>),
  Variable(3097, "CurrentSessionCount", 3095, HasComponent, 63, 7),
  Links(3097, HasModellingRule, <<78>>),
  Variable(3098, "CumulatedSessionCount", 3095, HasComponent, 63, 7),
  Links(3098, HasModellingRule, <<78>>),
  Variable(3099, "SecurityRejectedSessionCount", 3095, HasComponent, 63, 7),
  Links(3099, HasModellingRule, <<78>>),
  Variable(3100, "RejectedSessionCount", 3095, HasComponent, 63, 7),
  Links(3100, HasModellingRule, <<78>>),
  Variable(3101, "SessionTimeoutCount", 3095, HasComponent, 63, 7) >>

P5_ServerType_ServerDiagnostics_ServerDiagnosticsSummary_SessionTimeoutCount_References == <<
  Links(3101, HasModellingRule, <<78>>),
  Variable(3102, "SessionAbortCount", 3095, HasComponent, 63, 7),
  Links(3102, HasModellingRule, <<78>>),
  Variable(3104, "PublishingIntervalCount", 3095, HasComponent, 63, 7),
  Links(3104, HasModellingRule, <<78>>),
  Variable(3105, "CurrentSubscriptionCount", 3095, HasComponent, 63, 7),
  Links(3105, HasModellingRule, <<78>>),
  Variable(3106, "CumulatedSubscriptionCount", 3095, HasComponent, 63, 7),
  Links(3106, HasModellingRule, <<78>>),
  Variable(3107, "SecurityRejectedRequestsCount", 3095, HasComponent, 63, 7),
  Links(3107, HasModellingRule, <<78>>) >>

P5_ServerType_ServerDiagnostics_ServerDiagnosticsSummary_RejectedRequestsCount == <<
  Variable(3108, "RejectedRequestsCount", 3095, HasComponent, 63, 7),
  Links(3108, HasModellingRule, <<78>>),
  Variable(3110, "SubscriptionDiagnosticsArray", 2010, HasComponent, 2171, 874),
  Links(3110, HasModellingRule, <<78>>),
  Object(3111, "SessionsDiagnosticsSummary", 2010, HasComponent, 2026),
  Links(3111, HasComponent, <<3112, 3113>>),
  Links(3111, HasModellingRule, <<78>>),
  Variable(3112, "SessionDiagnosticsArray", 3111, HasComponent, 2196, 865),
  Links(3112, HasModellingRule, <<78>>),
  Variable(3113, "SessionSecurityDiagnosticsArray", 3111, HasComponent, 2243, 868) >>

P5_ServerType_ServerDiagnostics_SessionsDiagnosticsSummary_SessionSecurityDiagnosticsArray_References == <<
  Links(3113, HasModellingRule, <<78>>),
  Variable(3114, "EnabledFlag", 2010, HasProperty, 68, 1),
  Links(3114, HasModellingRule, <<78>>),
  Object(2011, "VendorServerInfo", 2004, HasComponent, 2033),
  Links(2011, HasModellingRule, <<78>>),
  Object(2012, "ServerRedundancy", 2004, HasComponent, 2034),
  Links(2012, HasProperty, <<3115>>),
  Links(2012, HasModellingRule, <<78>>),
  Variable(3115, "RedundancySupport", 2012, HasProperty, 68, 851),
  Links(3115, HasModellingRule, <<78>>),
  Object(11527, "Namespaces", 2004, HasComponent, 11645) >>

P5_ServerType_Namespaces_References == <<
  Links(11527, HasModellingRule, <<80>>),
  Variable(11490, "InputArguments", 11489, HasProperty, 68, 296),
  Links(11490, HasModellingRule, <<78>>),
  Variable(11491, "OutputArguments", 11489, HasProperty, 68, 296),
  Links(11491, HasModellingRule, <<78>>),
  ObjectType(2013, "ServerCapabilitiesType", 58, HasSubtype),
  Links(2013, HasProperty, <<2014, 2016, 2017, 2732, 2733, 2734, 3049>>) >>

P5_ServerCapabilitiesType_References == <<
  Links(2013, HasProperty, <<11549, 11550>>),
  Links(2013, HasComponent, <<11551, 2019, 2754, 11562>>),
  Variable(2014, "ServerProfileArray", 2013, HasProperty, 68, 12),
  Links(2014, HasModellingRule, <<78>>),
  Variable(2016, "LocaleIdArray", 2013, HasProperty, 68, 295),
  Links(2016, HasModellingRule, <<78>>),
  Variable(2017, "MinSupportedSampleRate", 2013, HasProperty, 68, 290),
  Links(2017, HasModellingRule, <<78>>) >>

P5_ServerCapabilitiesType_MaxBrowseContinuationPoints == <<
  Variable(2732, "MaxBrowseContinuationPoints", 2013, HasProperty, 68, 5),
  Links(2732, HasModellingRule, <<78>>),
  Variable(2733, "MaxQueryContinuationPoints", 2013, HasProperty, 68, 5),
  Links(2733, HasModellingRule, <<78>>),
  Variable(2734, "MaxHistoryContinuationPoints", 2013, HasProperty, 68, 5),
  Links(2734, HasModellingRule, <<78>>),
  Variable(3049, "SoftwareCertificates", 2013, HasProperty, 68, 344),
  Links(3049, HasModellingRule, <<78>>),
  Variable(11549, "MaxArrayLength", 2013, HasProperty, 68, 7),
  Links(11549, HasModellingRule, <<80>>) >>

P5_ServerCapabilitiesType_MaxStringLength == <<
  Variable(11550, "MaxStringLength", 2013, HasProperty, 68, 7),
  Links(11550, HasModellingRule, <<80>>),
  Object(11551, "OperationLimits", 2013, HasComponent, 11564),
  Links(11551, HasModellingRule, <<80>>),
  Object(2019, "ModellingRules", 2013, HasComponent, 61),
  Links(2019, HasModellingRule, <<78>>),
  Object(2754, "AggregateFunctions", 2013, HasComponent, 61),
  Links(2754, HasModellingRule, <<78>>),
  Variable(11562, "<VendorCapability>", 2013, HasComponent, 2137, 12),
  Links(11562, HasModellingRule, <<11508>>),
  ObjectType(2020, "ServerDiagnosticsType", 58, HasSubtype) >>

P5_ServerDiagnosticsType_References == <<
  Links(2020, HasComponent, <<2021, 2022, 2023, 2744>>),
  Links(2020, HasProperty, <<2025>>),
  Variable(2021, "ServerDiagnosticsSummary", 2020, HasComponent, 2150, 859),
  Links(2021, HasComponent, <<3116, 3117, 3118, 3119, 3120, 3121, 3122, 3124, 3125>>) >>

P5_ServerDiagnosticsType_ServerDiagnosticsSummary_References == <<
  Links(2021, HasComponent, <<3126, 3127, 3128>>),
  Links(2021, HasModellingRule, <<78>>),
  Variable(3116, "ServerViewCount", 2021, HasComponent, 63, 7),
  Links(3116, HasModellingRule, <<78>>),
  Variable(3117, "CurrentSessionCount", 2021, HasComponent, 63, 7),
  Links(3117, HasModellingRule, <<78>>),
  Variable(3118, "CumulatedSessionCount", 2021, HasComponent, 63, 7),
  Links(3118, HasModellingRule, <<78>>),
  Variable(3119, "SecurityRejectedSessionCount", 2021, HasComponent, 63, 7),
  Links(3119, HasModellingRule, <<78>>) >>

P5_ServerDiagnosticsType_ServerDiagnosticsSummary_RejectedSessionCount == <<
  Variable(3120, "RejectedSessionCount", 2021, HasComponent, 63, 7),
  Links(3120, HasModellingRule, <<78>>),
  Variable(3121, "SessionTimeoutCount", 2021, HasComponent, 63, 7),
  Links(3121, HasModellingRule, <<78>>),
  Variable(3122, "SessionAbortCount", 2021, HasComponent, 63, 7),
  Links(3122, HasModellingRule, <<78>>),
  Variable(3124, "PublishingIntervalCount", 2021, HasComponent, 63, 7),
  Links(3124, HasModellingRule, <<78>>),
  Variable(3125, "CurrentSubscriptionCount", 2021, HasComponent, 63, 7),
  Links(3125, HasModellingRule, <<78>>),
  Variable(3126, "CumulatedSubscriptionCount", 2021, HasComponent, 63, 7) >>

P5_ServerDiagnosticsType_ServerDiagnosticsSummary_CumulatedSubscriptionCount_References == <<
  Links(3126, HasModellingRule, <<78>>),
  Variable(3127, "SecurityRejectedRequestsCount", 2021, HasComponent, 63, 7),
  Links(3127, HasModellingRule, <<78>>),
  Variable(3128, "RejectedRequestsCount", 2021, HasComponent, 63, 7),
  Links(3128, HasModellingRule, <<78>>),
  Variable(2022, "SamplingIntervalDiagnosticsArray", 2020, HasComponent, 2164, 856),
  Links(2022, HasModellingRule, <<80>>),
  Variable(2023, "SubscriptionDiagnosticsArray", 2020, HasComponent, 2171, 874),
  Links(2023, HasModellingRule, <<78>>),
  Object(2744, "SessionsDiagnosticsSummary", 2020, HasComponent, 2026),
  Links(2744, HasComponent, <<3129>>) >>

P5_ServerDiagnosticsType_SessionsDiagnosticsSummary_References == <<
  Links(2744, HasComponent, <<3130>>),
  Links(2744, HasModellingRule, <<78>>),
  Variable(3129, "SessionDiagnosticsArray", 2744, HasComponent, 2196, 865),
  Links(3129, HasModellingRule, <<78>>),
  Variable(3130, "SessionSecurityDiagnosticsArray", 2744, HasComponent, 2243, 868),
  Links(3130, HasModellingRule, <<78>>),
  Variable(2025, "EnabledFlag", 2020, HasProperty, 68, 1),
  Links(2025, HasModellingRule, <<78>>),
  ObjectType(2026, "SessionsDiagnosticsSummaryType", 58, HasSubtype),
  Links(2026, HasComponent, <<2027, 2028, 12097>>) >>

P5_SessionsDiagnosticsSummaryType_SessionDiagnosticsArray == <<
  Variable(2027, "SessionDiagnosticsArray", 2026, HasComponent, 2196, 865),
  Links(2027, HasModellingRule, <<78>>),
  Variable(2028, "SessionSecurityDiagnosticsArray", 2026, HasComponent, 2243, 868),
  Links(2028, HasModellingRule, <<78>>),
  Object(12097, "<SessionPlaceholder>", 2026, HasComponent, 2029),
  Links(12097, HasComponent, <<12098, 12142, 12152>>),
  Links(12097, HasModellingRule, <<11508>>),
  Variable(12098, "SessionDiagnostics", 12097, HasComponent, 2197, 865),
  Links(12098, HasComponent, <<12099, 12100>>) >>

P5_SessionsDiagnosticsSummaryType_SessionPlaceholder_SessionDiagnostics_References == <<
  Links(12098, HasComponent, <<12101, 12102, 12103, 12104, 12105, 12106, 12107, 12108,
      12109, 12110, 12111, 12112, 12113, 12114, 12115, 12116>>) >>

P5_SessionsDiagnosticsSummaryType_SessionPlaceholder_SessionDiagnostics_References_2 == <<
  Links(12098, HasComponent, <<12117, 12118, 12119, 12120, 12121, 12122, 12123, 12124,
      12125, 12126, 12127, 12128, 12129, 12130, 12131, 12132>>) >>

P5_SessionsDiagnosticsSummaryType_SessionPlaceholder_SessionDiagnostics_References_3 == <<
  Links(12098, HasComponent, <<12133, 12134, 12135, 12136, 12137, 12138, 12139, 12140, 12141>>),
  Links(12098, HasModellingRule, <<78>>),
  Variable(12099, "SessionId", 12098, HasComponent, 63, 17),
  Links(12099, HasModellingRule, <<78>>),
  Variable(12100, "SessionName", 12098, HasComponent, 63, 12),
  Links(12100, HasModellingRule, <<78>>) >>

P5_SessionsDiagnosticsSummaryType_SessionPlaceholder_SessionDiagnostics_ClientDescription == <<
  Variable(12101, "ClientDescription", 12098, HasComponent, 63, 308),
  Links(12101, HasModellingRule, <<78>>),
  Variable(12102, "ServerUri", 12098, HasComponent, 63, 12),
  Links(12102, HasModellingRule, <<78>>),
  Variable(12103, "EndpointUrl", 12098, HasComponent, 63, 12),
  Links(12103, HasModellingRule, <<78>>),
  Variable(12104, "LocaleIds", 12098, HasComponent, 63, 295),
  Links(12104, HasModellingRule, <<78>>),
  Variable(12105, "ActualSessionTimeout", 12098, HasComponent, 63, 290),
  Links(12105, HasModellingRule, <<78>>),
  Variable(12106, "MaxResponseMessageSize", 12098, HasComponent, 63, 7) >>

P5_SessionsDiagnosticsSummaryType_SessionPlaceholder_SessionDiagnostics_MaxResponseMessageSize_References == <<
  Links(12106, HasModellingRule, <<78>>),
  Variable(12107, "ClientConnectionTime", 12098, HasComponent, 63, 294),
  Links(12107, HasModellingRule, <<78>>),
  Variable(12108, "ClientLastContactTime", 12098, HasComponent, 63, 294),
  Links(12108, HasModellingRule, <<78>>),
  Variable(12109, "CurrentSubscriptionsCount", 12098, HasComponent, 63, 7),
  Links(12109, HasModellingRule, <<78>>),
  Variable(12110, "CurrentMonitoredItemsCount", 12098, HasComponent, 63, 7),
  Links(12110, HasModellingRule, <<78>>),
  Variable(12111, "CurrentPublishRequestsInQueue", 12098, HasComponent, 63, 7),
  Links(12111, HasModellingRule, <<78>>) >>

P5_SessionsDiagnosticsSummaryType_SessionPlaceholder_SessionDiagnostics_TotalRequestCount == <<
  Variable(12112, "TotalRequestCount", 12098, HasComponent, 63, 871),
  Links(12112, HasModellingRule, <<78>>),
  Variable(12113, "UnauthorizedRequestCount", 12098, HasComponent, 63, 7),
  Links(12113, HasModellingRule, <<78>>),
  Variable(12114, "ReadCount", 12098, HasComponent, 63, 871),
  Links(12114, HasModellingRule, <<78>>),
  Variable(12115, "HistoryReadCount", 12098, HasComponent, 63, 871),
  Links(12115, HasModellingRule, <<78>>),
  Variable(12116, "WriteCount", 12098, HasComponent, 63, 871),
  Links(12116, HasModellingRule, <<78>>),
  Variable(12117, "HistoryUpdateCount", 12098, HasComponent, 63, 871) >>

P5_SessionsDiagnosticsSummaryType_SessionPlaceholder_SessionDiagnostics_HistoryUpdateCount_References == <<
  Links(12117, HasModellingRule, <<78>>),
  Variable(12118, "CallCount", 12098, HasComponent, 63, 871),
  Links(12118, HasModellingRule, <<78>>),
  Variable(12119, "CreateMonitoredItemsCount", 12098, HasComponent, 63, 871),
  Links(12119, HasModellingRule, <<78>>),
  Variable(12120, "ModifyMonitoredItemsCount", 12098, HasComponent, 63, 871),
  Links(12120, HasModellingRule, <<78>>),
  Variable(12121, "SetMonitoringModeCount", 12098, HasComponent, 63, 871),
  Links(12121, HasModellingRule, <<78>>),
  Variable(12122, "SetTriggeringCount", 12098, HasComponent, 63, 871),
  Links(12122, HasModellingRule, <<78>>) >>

P5_SessionsDiagnosticsSummaryType_SessionPlaceholder_SessionDiagnostics_DeleteMonitoredItemsCount == <<
  Variable(12123, "DeleteMonitoredItemsCount", 12098, HasComponent, 63, 871),
  Links(12123, HasModellingRule, <<78>>),
  Variable(12124, "CreateSubscriptionCount", 12098, HasComponent, 63, 871),
  Links(12124, HasModellingRule, <<78>>),
  Variable(12125, "ModifySubscriptionCount", 12098, HasComponent, 63, 871),
  Links(12125, HasModellingRule, <<78>>),
  Variable(12126, "SetPublishingModeCount", 12098, HasComponent, 63, 871),
  Links(12126, HasModellingRule, <<78>>),
  Variable(12127, "PublishCount", 12098, HasComponent, 63, 871),
  Links(12127, HasModellingRule, <<78>>),
  Variable(12128, "RepublishCount", 12098, HasComponent, 63, 871) >>

P5_SessionsDiagnosticsSummaryType_SessionPlaceholder_SessionDiagnostics_RepublishCount_References == <<
  Links(12128, HasModellingRule, <<78>>),
  Variable(12129, "TransferSubscriptionsCount", 12098, HasComponent, 63, 871),
  Links(12129, HasModellingRule, <<78>>),
  Variable(12130, "DeleteSubscriptionsCount", 12098, HasComponent, 63, 871),
  Links(12130, HasModellingRule, <<78>>),
  Variable(12131, "AddNodesCount", 12098, HasComponent, 63, 871),
  Links(12131, HasModellingRule, <<78>>),
  Variable(12132, "AddReferencesCount", 12098, HasComponent, 63, 871),
  Links(12132, HasModellingRule, <<78>>),
  Variable(12133, "DeleteNodesCount", 12098, HasComponent, 63, 871),
  Links(12133, HasModellingRule, <<78>>) >>

P5_SessionsDiagnosticsSummaryType_SessionPlaceholder_SessionDiagnostics_DeleteReferencesCount == <<
  Variable(12134, "DeleteReferencesCount", 12098, HasComponent, 63, 871),
  Links(12134, HasModellingRule, <<78>>),
  Variable(12135, "BrowseCount", 12098, HasComponent, 63, 871),
  Links(12135, HasModellingRule, <<78>>),
  Variable(12136, "BrowseNextCount", 12098, HasComponent, 63, 871),
  Links(12136, HasModellingRule, <<78>>),
  Variable(12137, "TranslateBrowsePathsToNodeIdsCount", 12098, HasComponent, 63, 871),
  Links(12137, HasModellingRule, <<78>>),
  Variable(12138, "QueryFirstCount", 12098, HasComponent, 63, 871),
  Links(12138, HasModellingRule, <<78>>),
  Variable(12139, "QueryNextCount", 12098, HasComponent, 63, 871) >>

P5_SessionsDiagnosticsSummaryType_SessionPlaceholder_SessionDiagnostics_QueryNextCount_References == <<
  Links(12139, HasModellingRule, <<78>>),
  Variable(12140, "RegisterNodesCount", 12098, HasComponent, 63, 871),
  Links(12140, HasModellingRule, <<78>>),
  Variable(12141, "UnregisterNodesCount", 12098, HasComponent, 63, 871),
  Links(12141, HasModellingRule, <<78>>),
  Variable(12142, "SessionSecurityDiagnostics", 12097, HasComponent, 2244, 868),
  Links(12142, HasComponent, <<12143, 12144, 12145, 12146, 12147, 12148, 12149>>) >>

P5_SessionsDiagnosticsSummaryType_SessionPlaceholder_SessionSecurityDiagnostics_References == <<
  Links(12142, HasComponent, <<12150, 12151>>),
  Links(12142, HasModellingRule, <<78>>),
  Variable(12143, "SessionId", 12142, HasComponent, 63, 17),
  Links(12143, HasModellingRule, <<78>>),
  Variable(12144, "ClientUserIdOfSession", 12142, HasComponent, 63, 12),
  Links(12144, HasModellingRule, <<78>>),
  Variable(12145, "ClientUserIdHistory", 12142, HasComponent, 63, 12),
  Links(12145, HasModellingRule, <<78>>),
  Variable(12146, "AuthenticationMechanism", 12142, HasComponent, 63, 12),
  Links(12146, HasModellingRule, <<78>>) >>

P5_SessionsDiagnosticsSummaryType_SessionPlaceholder_SessionSecurityDiagnostics_Encoding == <<
  Variable(12147, "Encoding", 12142, HasComponent, 63, 12),
  Links(12147, HasModellingRule, <<78>>),
  Variable(12148, "TransportProtocol", 12142, HasComponent, 63, 12),
  Links(12148, HasModellingRule, <<78>>),
  Variable(12149, "SecurityMode", 12142, HasComponent, 63, 302),
  Links(12149, HasModellingRule, <<78>>),
  Variable(12150, "SecurityPolicyUri", 12142, HasComponent, 63, 12),
  Links(12150, HasModellingRule, <<78>>),
  Variable(12151, "ClientCertificate", 12142, HasComponent, 63, 15),
  Links(12151, HasModellingRule, <<78>>) >>

P5_SessionsDiagnosticsSummaryType_SessionPlaceholder_SubscriptionDiagnosticsArray == <<
  Variable(12152, "SubscriptionDiagnosticsArray", 12097, HasComponent, 2171, 874),
  Links(12152, HasModellingRule, <<78>>),
  ObjectType(2029, "SessionDiagnosticsObjectType", 58, HasSubtype),
  Links(2029, HasComponent, <<2030, 2031, 2032>>),
  Variable(2030, "SessionDiagnostics", 2029, HasComponent, 2197, 865),
  Links(2030, HasComponent, <<3131, 3132, 3133, 3134, 3135, 3136>>) >>

P5_SessionDiagnosticsObjectType_SessionDiagnostics_References == <<
  Links(2030, HasComponent, <<3137, 3138, 3139, 3140, 3141, 3142, 3143, 8898, 11891, 3151,
      3152, 3153, 3154, 3155, 3156, 3157>>) >>

P5_SessionDiagnosticsObjectType_SessionDiagnostics_References_2 == <<
  Links(2030, HasComponent, <<3158, 3159, 3160, 3161, 3162, 3163, 3164, 3165, 3166, 3167,
      3168, 3169, 3170, 3171, 3172, 3173>>) >>

P5_SessionDiagnosticsObjectType_SessionDiagnostics_References_3 == <<
  Links(2030, HasComponent, <<3174, 3175, 3176, 3177, 3178>>),
  Links(2030, HasModellingRule, <<78>>),
  Variable(3131, "SessionId", 2030, HasComponent, 63, 17),
  Links(3131, HasModellingRule, <<78>>),
  Variable(3132, "SessionName", 2030, HasComponent, 63, 12),
  Links(3132, HasModellingRule, <<78>>),
  Variable(3133, "ClientDescription", 2030, HasComponent, 63, 308),
  Links(3133, HasModellingRule, <<78>>) >>

P5_SessionDiagnosticsObjectType_SessionDiagnostics_ServerUri == <<
  Variable(3134, "ServerUri", 2030, HasComponent, 63, 12),
  Links(3134, HasModellingRule, <<78>>),
  Variable(3135, "EndpointUrl", 2030, HasComponent, 63, 12),
  Links(3135, HasModellingRule, <<78>>),
  Variable(3136, "LocaleIds", 2030, HasComponent, 63, 295),
  Links(3136, HasModellingRule, <<78>>),
  Variable(3137, "ActualSessionTimeout", 2030, HasComponent, 63, 290),
  Links(3137, HasModellingRule, <<78>>),
  Variable(3138, "MaxResponseMessageSize", 2030, HasComponent, 63, 7),
  Links(3138, HasModellingRule, <<78>>),
  Variable(3139, "ClientConnectionTime", 2030, HasComponent, 63, 294) >>

P5_SessionDiagnosticsObjectType_SessionDiagnostics_ClientConnectionTime_References == <<
  Links(3139, HasModellingRule, <<78>>),
  Variable(3140, "ClientLastContactTime", 2030, HasComponent, 63, 294),
  Links(3140, HasModellingRule, <<78>>),
  Variable(3141, "CurrentSubscriptionsCount", 2030, HasComponent, 63, 7),
  Links(3141, HasModellingRule, <<78>>),
  Variable(3142, "CurrentMonitoredItemsCount", 2030, HasComponent, 63, 7),
  Links(3142, HasModellingRule, <<78>>),
  Variable(3143, "CurrentPublishRequestsInQueue", 2030, HasComponent, 63, 7),
  Links(3143, HasModellingRule, <<78>>),
  Variable(8898, "TotalRequestCount", 2030, HasComponent, 63, 871),
  Links(8898, HasModellingRule, <<78>>) >>

P5_SessionDiagnosticsObjectType_SessionDiagnostics_UnauthorizedRequestCount == <<
  Variable(11891, "UnauthorizedRequestCount", 2030, HasComponent, 63, 7),
  Links(11891, HasModellingRule, <<78>>),
  Variable(3151, "ReadCount", 2030, HasComponent, 63, 871),
  Links(3151, HasModellingRule, <<78>>),
  Variable(3152, "HistoryReadCount", 2030, HasComponent, 63, 871),
  Links(3152, HasModellingRule, <<78>>),
  Variable(3153, "WriteCount", 2030, HasComponent, 63, 871),
  Links(3153, HasModellingRule, <<78>>),
  Variable(3154, "HistoryUpdateCount", 2030, HasComponent, 63, 871),
  Links(3154, HasModellingRule, <<78>>),
  Variable(3155, "CallCount", 2030, HasComponent, 63, 871) >>

P5_SessionDiagnosticsObjectType_SessionDiagnostics_CallCount_References == <<
  Links(3155, HasModellingRule, <<78>>),
  Variable(3156, "CreateMonitoredItemsCount", 2030, HasComponent, 63, 871),
  Links(3156, HasModellingRule, <<78>>),
  Variable(3157, "ModifyMonitoredItemsCount", 2030, HasComponent, 63, 871),
  Links(3157, HasModellingRule, <<78>>),
  Variable(3158, "SetMonitoringModeCount", 2030, HasComponent, 63, 871),
  Links(3158, HasModellingRule, <<78>>),
  Variable(3159, "SetTriggeringCount", 2030, HasComponent, 63, 871),
  Links(3159, HasModellingRule, <<78>>),
  Variable(3160, "DeleteMonitoredItemsCount", 2030, HasComponent, 63, 871),
  Links(3160, HasModellingRule, <<78>>) >>

P5_SessionDiagnosticsObjectType_SessionDiagnostics_CreateSubscriptionCount == <<
  Variable(3161, "CreateSubscriptionCount", 2030, HasComponent, 63, 871),
  Links(3161, HasModellingRule, <<78>>),
  Variable(3162, "ModifySubscriptionCount", 2030, HasComponent, 63, 871),
  Links(3162, HasModellingRule, <<78>>),
  Variable(3163, "SetPublishingModeCount", 2030, HasComponent, 63, 871),
  Links(3163, HasModellingRule, <<78>>),
  Variable(3164, "PublishCount", 2030, HasComponent, 63, 871),
  Links(3164, HasModellingRule, <<78>>),
  Variable(3165, "RepublishCount", 2030, HasComponent, 63, 871),
  Links(3165, HasModellingRule, <<78>>),
  Variable(3166, "TransferSubscriptionsCount", 2030, HasComponent, 63, 871) >>

P5_SessionDiagnosticsObjectType_SessionDiagnostics_TransferSubscriptionsCount_References == <<
  Links(3166, HasModellingRule, <<78>>),
  Variable(3167, "DeleteSubscriptionsCount", 2030, HasComponent, 63, 871),
  Links(3167, HasModellingRule, <<78>>),
  Variable(3168, "AddNodesCount", 2030, HasComponent, 63, 871),
  Links(3168, HasModellingRule, <<78>>),
  Variable(3169, "AddReferencesCount", 2030, HasComponent, 63, 871),
  Links(3169, HasModellingRule, <<78>>),
  Variable(3170, "DeleteNodesCount", 2030, HasComponent, 63, 871),
  Links(3170, HasModellingRule, <<78>>),
  Variable(3171, "DeleteReferencesCount", 2030, HasComponent, 63, 871),
  Links(3171, HasModellingRule, <<78>>) >>

P5_SessionDiagnosticsObjectType_SessionDiagnostics_BrowseCount == <<
  Variable(3172, "BrowseCount", 2030, HasComponent, 63, 871),
  Links(3172, HasModellingRule, <<78>>),
  Variable(3173, "BrowseNextCount", 2030, HasComponent, 63, 871),
  Links(3173, HasModellingRule, <<78>>),
  Variable(3174, "TranslateBrowsePathsToNodeIdsCount", 2030, HasComponent, 63, 871),
  Links(3174, HasModellingRule, <<78>>),
  Variable(3175, "QueryFirstCount", 2030, HasComponent, 63, 871),
  Links(3175, HasModellingRule, <<78>>),
  Variable(3176, "QueryNextCount", 2030, HasComponent, 63, 871),
  Links(3176, HasModellingRule, <<78>>),
  Variable(3177, "RegisterNodesCount", 2030, HasComponent, 63, 871) >>

P5_SessionDiagnosticsObjectType_SessionDiagnostics_RegisterNodesCount_References == <<
  Links(3177, HasModellingRule, <<78>>),
  Variable(3178, "UnregisterNodesCount", 2030, HasComponent, 63, 871),
  Links(3178, HasModellingRule, <<78>>),
  Variable(2031, "SessionSecurityDiagnostics", 2029, HasComponent, 2244, 868),
  Links(2031, HasComponent, <<3179, 3180, 3181, 3182, 3183, 3184, 3185, 3186, 3187>>),
  Links(2031, HasModellingRule, <<78>>) >>

P5_SessionDiagnosticsObjectType_SessionSecurityDiagnostics_SessionId == <<
  Variable(3179, "SessionId", 2031, HasComponent, 63, 17),
  Links(3179, HasModellingRule, <<78>>),
  Variable(3180, "ClientUserIdOfSession", 2031, HasComponent, 63, 12),
  Links(3180, HasModellingRule, <<78>>),
  Variable(3181, "ClientUserIdHistory", 2031, HasComponent, 63, 12),
  Links(3181, HasModellingRule, <<78>>),
  Variable(3182, "AuthenticationMechanism", 2031, HasComponent, 63, 12),
  Links(3182, HasModellingRule, <<78>>),
  Variable(3183, "Encoding", 2031, HasComponent, 63, 12),
  Links(3183, HasModellingRule, <<78>>),
  Variable(3184, "TransportProtocol", 2031, HasComponent, 63, 12) >>

P5_SessionDiagnosticsObjectType_SessionSecurityDiagnostics_TransportProtocol_References == <<
  Links(3184, HasModellingRule, <<78>>),
  Variable(3185, "SecurityMode", 2031, HasComponent, 63, 302),
  Links(3185, HasModellingRule, <<78>>),
  Variable(3186, "SecurityPolicyUri", 2031, HasComponent, 63, 12),
  Links(3186, HasModellingRule, <<78>>),
  Variable(3187, "ClientCertificate", 2031, HasComponent, 63, 15),
  Links(3187, HasModellingRule, <<78>>),
  Variable(2032, "SubscriptionDiagnosticsArray", 2029, HasComponent, 2171, 874),
  Links(2032, HasModellingRule, <<78>>),
  ObjectType(2033, "VendorServerInfoType", 58, HasSubtype) >>

P5_ServerRedundancyType == <<
  ObjectType(2034, "ServerRedundancyType", 58, HasSubtype),
  Links(2034, HasProperty, <<2035>>),
  Variable(2035, "RedundancySupport", 2034, HasProperty, 68, 851),
  Links(2035, HasModellingRule, <<78>>),
  ObjectType(2036, "TransparentRedundancyType", 2034, HasSubtype),
  Links(2036, HasProperty, <<2037, 2038>>),
  Variable(2037, "CurrentServerId", 2036, HasProperty, 68, 12),
  Links(2037, HasModellingRule, <<78>>),
  Variable(2038, "RedundantServerArray", 2036, HasProperty, 68, 853),
  Links(2038, HasModellingRule, <<78>>) >>

P5_NonTransparentRedundancyType == <<
  ObjectType(2039, "NonTransparentRedundancyType", 2034, HasSubtype),
  Links(2039, HasProperty, <<2040>>),
  Variable(2040, "ServerUriArray", 2039, HasProperty, 68, 12),
  Links(2040, HasModellingRule, <<78>>),
  ObjectType(11945, "NonTransparentNetworkRedundancyType", 2039, HasSubtype),
  Links(11945, HasProperty, <<11948>>),
  Variable(11948, "ServerNetworkGroups", 11945, HasProperty, 68, 11944),
  Links(11948, HasModellingRule, <<78>>),
  ObjectType(11564, "OperationLimitsType", 58, HasSubtype),
  Links(11564, HasProperty, <<11565, 12161, 12162>>) >>

P5_OperationLimitsType_References == <<
  Links(11564, HasProperty, <<11567, 12163, 12164, 11569, 11570, 11571, 11572, 11573, 11574>>),
  Variable(11565, "MaxNodesPerRead", 11564, HasProperty, 68, 7),
  Links(11565, HasModellingRule, <<80>>),
  Variable(12161, "MaxNodesPerHistoryReadData", 11564, HasProperty, 68, 7),
  Links(12161, HasModellingRule, <<80>>) >>

P5_OperationLimitsType_MaxNodesPerHistoryReadEvents == <<
  Variable(12162, "MaxNodesPerHistoryReadEvents", 11564, HasProperty, 68, 7),
  Links(12162, HasModellingRule, <<80>>),
  Variable(11567, "MaxNodesPerWrite", 11564, HasProperty, 68, 7),
  Links(11567, HasModellingRule, <<80>>),
  Variable(12163, "MaxNodesPerHistoryUpdateData", 11564, HasProperty, 68, 7),
  Links(12163, HasModellingRule, <<80>>),
  Variable(12164, "MaxNodesPerHistoryUpdateEvents", 11564, HasProperty, 68, 7),
  Links(12164, HasModellingRule, <<80>>),
  Variable(11569, "MaxNodesPerMethodCall", 11564, HasProperty, 68, 7),
  Links(11569, HasModellingRule, <<80>>) >>

P5_OperationLimitsType_MaxNodesPerBrowse == <<
  Variable(11570, "MaxNodesPerBrowse", 11564, HasProperty, 68, 7),
  Links(11570, HasModellingRule, <<80>>),
  Variable(11571, "MaxNodesPerRegisterNodes", 11564, HasProperty, 68, 7),
  Links(11571, HasModellingRule, <<80>>),
  Variable(11572, "MaxNodesPerTranslateBrowsePathsToNodeIds", 11564, HasProperty, 68, 7),
  Links(11572, HasModellingRule, <<80>>),
  Variable(11573, "MaxNodesPerNodeManagement", 11564, HasProperty, 68, 7),
  Links(11573, HasModellingRule, <<80>>),
  Variable(11574, "MaxMonitoredItemsPerCall", 11564, HasProperty, 68, 7),
  Links(11574, HasModellingRule, <<80>>) >>

P5_FileType == <<
  ObjectType(11575, "FileType", 58, HasSubtype),
  Links(11575, HasProperty, <<11576, 11577, 11578, 11579>>),
  Links(11575, HasComponent, <<11580, 11583, 11585, 11588, 11590, 11593>>),
  Variable(11576, "Size", 11575, HasProperty, 68, 9),
  Links(11576, HasModellingRule, <<78>>) >>

P5_FileType_Writeable == <<
  Variable(11577, "Writeable", 11575, HasProperty, 68, 1),
  Links(11577, HasModellingRule, <<78>>),
  Variable(11578, "UserWriteable", 11575, HasProperty, 68, 1),
  Links(11578, HasModellingRule, <<78>>),
  Variable(11579, "OpenCount", 11575, HasProperty, 68, 5),
  Links(11579, HasModellingRule, <<78>>),
  Variable(11581, "InputArguments", 11580, HasProperty, 68, 296),
  Links(11581, HasModellingRule, <<78>>),
  Variable(11582, "OutputArguments", 11580, HasProperty, 68, 296),
  Links(11582, HasModellingRule, <<78>>) >>

P5_FileType_Close_InputArguments == <<
  Variable(11584, "InputArguments", 11583, HasProperty, 68, 296),
  Links(11584, HasModellingRule, <<78>>),
  Variable(11586, "InputArguments", 11585, HasProperty, 68, 296),
  Links(11586, HasModellingRule, <<78>>),
  Variable(11587, "OutputArguments", 11585, HasProperty, 68, 296),
  Links(11587, HasModellingRule, <<78>>),
  Variable(11589, "InputArguments", 11588, HasProperty, 68, 296),
  Links(11589, HasModellingRule, <<78>>),
  Variable(11591, "InputArguments", 11590, HasProperty, 68, 296),
  Links(11591, HasModellingRule, <<78>>),
  Variable(11592, "OutputArguments", 11590, HasProperty, 68, 296) >>

P5_FileType_GetPosition_OutputArguments_References == <<
  Links(11592, HasModellingRule, <<78>>),
  Variable(11594, "InputArguments", 11593, HasProperty, 68, 296),
  Links(11594, HasModellingRule, <<78>>),
  ObjectType(11595, "AddressSpaceFileType", 11575, HasSubtype),
  Links(11595, HasComponent, <<11615>>),
  ObjectType(11616, "NamespaceMetadataType", 58, HasSubtype),
  Links(11616, HasProperty, <<11617, 11618, 11619, 11620, 11621, 11622, 11623>>) >>

P5_NamespaceMetadataType_References == <<
  Links(11616, HasComponent, <<11624>>),
  Variable(11617, "NamespaceUri", 11616, HasProperty, 68, 12),
  Links(11617, HasModellingRule, <<78>>),
  Variable(11618, "NamespaceVersion", 11616, HasProperty, 68, 12),
  Links(11618, HasModellingRule, <<78>>),
  Variable(11619, "NamespacePublicationDate", 11616, HasProperty, 68, 13),
  Links(11619, HasModellingRule, <<78>>),
  Variable(11620, "IsNamespaceSubset", 11616, HasProperty, 68, 1),
  Links(11620, HasModellingRule, <<78>>),
  Variable(11621, "StaticNodeIdIdentifierTypes", 11616, HasProperty, 68, 256) >>

P5_NamespaceMetadataType_StaticNodeIdIdentifierTypes_References == <<
  Links(11621, HasModellingRule, <<78>>),
  Variable(11622, "StaticNumericNodeIdRange", 11616, HasProperty, 68, 291),
  Links(11622, HasModellingRule, <<78>>),
  Variable(11623, "StaticStringNodeIdPattern", 11616, HasProperty, 68, 12),
  Links(11623, HasModellingRule, <<78>>),
  Object(11624, "NamespaceFile", 11616, HasComponent, 11595),
  Links(11624, HasProperty, <<11625, 11626, 11627, 11628>>),
  Links(11624, HasComponent, <<11629, 11632, 11634>>) >>

P5_NamespaceMetadataType_NamespaceFile_References == <<
  Links(11624, HasComponent, <<11637, 11639, 11642>>),
  Links(11624, HasModellingRule, <<80>>),
  Variable(11625, "Size", 11624, HasProperty, 68, 9),
  Links(11625, HasModellingRule, <<78>>),
  Variable(11626, "Writeable", 11624, HasProperty, 68, 1),
  Links(11626, HasModellingRule, <<78>>),
  Variable(11627, "UserWriteable", 11624, HasProperty, 68, 1),
  Links(11627, HasModellingRule, <<78>>),
  Variable(11628, "OpenCount", 11624, HasProperty, 68, 5),
  Links(11628, HasModellingRule, <<78>>) >>

P5_NamespaceMetadataType_NamespaceFile_Open_InputArguments == <<
  Variable(11630, "InputArguments", 11629, HasProperty, 68, 296),
  Links(11630, HasModellingRule, <<78>>),
  Variable(11631, "OutputArguments", 11629, HasProperty, 68, 296),
  Links(11631, HasModellingRule, <<78>>),
  Variable(11633, "InputArguments", 11632, HasProperty, 68, 296),
  Links(11633, HasModellingRule, <<78>>),
  Variable(11635, "InputArguments", 11634, HasProperty, 68, 296),
  Links(11635, HasModellingRule, <<78>>),
  Variable(11636, "OutputArguments", 11634, HasProperty, 68, 296),
  Links(11636, HasModellingRule, <<78>>),
  Variable(11638, "InputArguments", 11637, HasProperty, 68, 296) >>

P5_NamespaceMetadataType_NamespaceFile_Write_InputArguments_References == <<
  Links(11638, HasModellingRule, <<78>>),
  Variable(11640, "InputArguments", 11639, HasProperty, 68, 296),
  Links(11640, HasModellingRule, <<78>>),
  Variable(11641, "OutputArguments", 11639, HasProperty, 68, 296),
  Links(11641, HasModellingRule, <<78>>),
  Variable(11643, "InputArguments", 11642, HasProperty, 68, 296),
  Links(11643, HasModellingRule, <<78>>),
  ObjectType(11645, "NamespacesType", 58, HasSubtype),
  Links(11645, HasComponent, <<11646, 11675>>),
  Object(11646, "<NamespaceIdentifier>", 11645, HasComponent, 11616) >>

P5_NamespacesType_NamespaceIdentifier_References == <<
  Links(11646, HasProperty, <<11647, 11648, 11649, 11650, 11651, 11652, 11653>>),
  Links(11646, HasModellingRule, <<11508>>),
  Variable(11647, "NamespaceUri", 11646, HasProperty, 68, 12),
  Links(11647, HasModellingRule, <<78>>),
  Variable(11648, "NamespaceVersion", 11646, HasProperty, 68, 12),
  Links(11648, HasModellingRule, <<78>>),
  Variable(11649, "NamespacePublicationDate", 11646, HasProperty, 68, 13) >>

P5_NamespacesType_NamespaceIdentifier_NamespacePublicationDate_References == <<
  Links(11649, HasModellingRule, <<78>>),
  Variable(11650, "IsNamespaceSubset", 11646, HasProperty, 68, 1),
  Links(11650, HasModellingRule, <<78>>),
  Variable(11651, "StaticNodeIdIdentifierTypes", 11646, HasProperty, 68, 256),
  Links(11651, HasModellingRule, <<78>>),
  Variable(11652, "StaticNumericNodeIdRange", 11646, HasProperty, 68, 291),
  Links(11652, HasModellingRule, <<78>>),
  Variable(11653, "StaticStringNodeIdPattern", 11646, HasProperty, 68, 12),
  Links(11653, HasModellingRule, <<78>>),
  Object(11675, "AddressSpaceFile", 11645, HasComponent, 11595),
  Links(11675, HasProperty, <<11676>>) >>

P5_NamespacesType_AddressSpaceFile_References == <<
  Links(11675, HasProperty, <<11677, 11678, 11679>>),
  Links(11675, HasComponent, <<11680, 11683, 11685, 11688, 11690, 11693>>),
  Links(11675, HasModellingRule, <<80>>),
  Variable(11676, "Size", 11675, HasProperty, 68, 9),
  Links(11676, HasModellingRule, <<78>>),
  Variable(11677, "Writeable", 11675, HasProperty, 68, 1),
  Links(11677, HasModellingRule, <<78>>) >>

P5_NamespacesType_AddressSpaceFile_UserWriteable == <<
  Variable(11678, "UserWriteable", 11675, HasProperty, 68, 1),
  Links(11678, HasModellingRule, <<78>>),
  Variable(11679, "OpenCount", 11675, HasProperty, 68, 5),
  Links(11679, HasModellingRule, <<78>>),
  Variable(11681, "InputArguments", 11680, HasProperty, 68, 296),
  Links(11681, HasModellingRule, <<78>>),
  Variable(11682, "OutputArguments", 11680, HasProperty, 68, 296),
  Links(11682, HasModellingRule, <<78>>),
  Variable(11684, "InputArguments", 11683, HasProperty, 68, 296),
  Links(11684, HasModellingRule, <<78>>) >>

P5_NamespacesType_AddressSpaceFile_Read_InputArguments == <<
  Variable(11686, "InputArguments", 11685, HasProperty, 68, 296),
  Links(11686, HasModellingRule, <<78>>),
  Variable(11687, "OutputArguments", 11685, HasProperty, 68, 296),
  Links(11687, HasModellingRule, <<78>>),
  Variable(11689, "InputArguments", 11688, HasProperty, 68, 296),
  Links(11689, HasModellingRule, <<78>>),
  Variable(11691, "InputArguments", 11690, HasProperty, 68, 296),
  Links(11691, HasModellingRule, <<78>>),
  Variable(11692, "OutputArguments", 11690, HasProperty, 68, 296),
  Links(11692, HasModellingRule, <<78>>),
  Variable(11694, "InputArguments", 11693, HasProperty, 68, 296) >>

P5_NamespacesType_AddressSpaceFile_SetPosition_InputArguments_References == <<
  Links(11694, HasModellingRule, <<78>>),
  ObjectType(2041, "BaseEventType", 58, HasSubtype),
  Links(2041, HasProperty, <<2042, 2043, 2044, 2045, 2046, 2047, 3190, 2050, 2051>>),
  Variable(2042, "EventId", 2041, HasProperty, 68, 15),
  Links(2042, HasModellingRule, <<78>>) >>

P5_BaseEventType_EventType == <<
  Variable(2043, "EventType", 2041, HasProperty, 68, 17),
  Links(2043, HasModellingRule, <<78>>),
  Variable(2044, "SourceNode", 2041, HasProperty, 68, 17),
  Links(2044, HasModellingRule, <<78>>),
  Variable(2045, "SourceName", 2041, HasProperty, 68, 12),
  Links(2045, HasModellingRule, <<78>>),
  Variable(2046, "Time", 2041, HasProperty, 68, 294),
  Links(2046, HasModellingRule, <<78>>),
  Variable(2047, "ReceiveTime", 2041, HasProperty, 68, 294),
  Links(2047, HasModellingRule, <<78>>) >>

P5_BaseEventType_LocalTime == <<
  Variable(3190, "LocalTime", 2041, HasProperty, 68, 8912),
  Links(3190, HasModellingRule, <<78>>),
  Variable(2050, "Message", 2041, HasProperty, 68, 21),
  Links(2050, HasModellingRule, <<78>>),
  Variable(2051, "Severity", 2041, HasProperty, 68, 5),
  Links(2051, HasModellingRule, <<78>>),
  ObjectType(2052, "AuditEventType", 2041, HasSubtype),
  Links(2052, HasProperty, <<2053, 2054, 2055, 2056, 2057>>) >>

P5_AuditEventType_ActionTimeStamp == <<
  Variable(2053, "ActionTimeStamp", 2052, HasProperty, 68, 294),
  Links(2053, HasModellingRule, <<78>>),
  Variable(2054, "Status", 2052, HasProperty, 68, 1),
  Links(2054, HasModellingRule, <<78>>),
  Variable(2055, "ServerId", 2052, HasProperty, 68, 12),
  Links(2055, HasModellingRule, <<78>>),
  Variable(2056, "ClientAuditEntryId", 2052, HasProperty, 68, 12),
  Links(2056, HasModellingRule, <<78>>),
  Variable(2057, "ClientUserId", 2052, HasProperty, 68, 12),
  Links(2057, HasModellingRule, <<78>>) >>

P5_AuditSecurityEventType == <<
  ObjectType(2058, "AuditSecurityEventType", 2052, HasSubtype),
  ObjectType(2059, "AuditChannelEventType", 2058, HasSubtype),
  Links(2059, HasProperty, <<2745>>),
  Variable(2745, "SecureChannelId", 2059, HasProperty, 68, 12),
  Links(2745, HasModellingRule, <<78>>),
  ObjectType(2060, "AuditOpenSecureChannelEventType", 2059, HasSubtype),
  Links(2060, HasProperty, <<2061, 2746, 2062, 2063, 2065, 2066>>) >>

P5_AuditOpenSecureChannelEventType_ClientCertificate == <<
  Variable(2061, "ClientCertificate", 2060, HasProperty, 68, 15),
  Links(2061, HasModellingRule, <<78>>),
  Variable(2746, "ClientCertificateThumbprint", 2060, HasProperty, 68, 12),
  Links(2746, HasModellingRule, <<78>>),
  Variable(2062, "RequestType", 2060, HasProperty, 68, 315),
  Links(2062, HasModellingRule, <<78>>),
  Variable(2063, "SecurityPolicyUri", 2060, HasProperty, 68, 12),
  Links(2063, HasModellingRule, <<78>>),
  Variable(2065, "SecurityMode", 2060, HasProperty, 68, 302),
  Links(2065, HasModellingRule, <<78>>) >>

P5_AuditOpenSecureChannelEventType_RequestedLifetime == <<
  Variable(2066, "RequestedLifetime", 2060, HasProperty, 68, 290),
  Links(2066, HasModellingRule, <<78>>),
  ObjectType(2069, "AuditSessionEventType", 2052, HasSubtype),
  Links(2069, HasProperty, <<2070>>),
  Variable(2070, "SessionId", 2069, HasProperty, 68, 17),
  Links(2070, HasModellingRule, <<78>>),
  ObjectType(2071, "AuditCreateSessionEventType", 2069, HasSubtype),
  Links(2071, HasProperty, <<2072, 2073, 2747, 2074>>) >>

P5_AuditCreateSessionEventType_SecureChannelId == <<
  Variable(2072, "SecureChannelId", 2071, HasProperty, 68, 12),
  Links(2072, HasModellingRule, <<78>>),
  Variable(2073, "ClientCertificate", 2071, HasProperty, 68, 15),
  Links(2073, HasModellingRule, <<78>>),
  Variable(2747, "ClientCertificateThumbprint", 2071, HasProperty, 68, 12),
  Links(2747, HasModellingRule, <<78>>),
  Variable(2074, "RevisedSessionTimeout", 2071, HasProperty, 68, 290),
  Links(2074, HasModellingRule, <<78>>),
  ObjectType(2748, "AuditUrlMismatchEventType", 2071, HasSubtype),
  Links(2748, HasProperty, <<2749>>) >>

P5_AuditUrlMismatchEventType_EndpointUrl == <<
  Variable(2749, "EndpointUrl", 2748, HasProperty, 68, 12),
  Links(2749, HasModellingRule, <<78>>),
  ObjectType(2075, "AuditActivateSessionEventType", 2069, HasSubtype),
  Links(2075, HasProperty, <<2076, 2077, 11485>>),
  Variable(2076, "ClientSoftwareCertificates", 2075, HasProperty, 68, 344),
  Links(2076, HasModellingRule, <<78>>),
  Variable(2077, "UserIdentityToken", 2075, HasProperty, 68, 316),
  Links(2077, HasModellingRule, <<78>>),
  Variable(11485, "SecureChannelId", 2075, HasProperty, 68, 12),
  Links(11485, HasModellingRule, <<78>>) >>

P5_AuditCancelEventType == <<
  ObjectType(2078, "AuditCancelEventType", 2069, HasSubtype),
  Links(2078, HasProperty, <<2079>>),
  Variable(2079, "RequestHandle", 2078, HasProperty, 68, 7),
  Links(2079, HasModellingRule, <<78>>),
  ObjectType(2080, "AuditCertificateEventType", 2058, HasSubtype),
  Links(2080, HasProperty, <<2081>>),
  Variable(2081, "Certificate", 2080, HasProperty, 68, 15),
  Links(2081, HasModellingRule, <<78>>),
  ObjectType(2082, "AuditCertificateDataMismatchEventType", 2080, HasSubtype),
  Links(2082, HasProperty, <<2083, 2084>>) >>

P5_AuditCertificateDataMismatchEventType_InvalidHostname == <<
  Variable(2083, "InvalidHostname", 2082, HasProperty, 68, 12),
  Links(2083, HasModellingRule, <<78>>),
  Variable(2084, "InvalidUri", 2082, HasProperty, 68, 12),
  Links(2084, HasModellingRule, <<78>>),
  ObjectType(2085, "AuditCertificateExpiredEventType", 2080, HasSubtype),
  ObjectType(2086, "AuditCertificateInvalidEventType", 2080, HasSubtype),
  ObjectType(2087, "AuditCertificateUntrustedEventType", 2080, HasSubtype),
  ObjectType(2088, "AuditCertificateRevokedEventType", 2080, HasSubtype),
  ObjectType(2089, "AuditCertificateMismatchEventType", 2080, HasSubtype),
  ObjectType(2090, "AuditNodeManagementEventType", 2052, HasSubtype) >>

P5_AuditAddNodesEventType == <<
  ObjectType(2091, "AuditAddNodesEventType", 2090, HasSubtype),
  Links(2091, HasProperty, <<2092>>),
  Variable(2092, "NodesToAdd", 2091, HasProperty, 68, 376),
  Links(2092, HasModellingRule, <<78>>),
  ObjectType(2093, "AuditDeleteNodesEventType", 2090, HasSubtype),
  Links(2093, HasProperty, <<2094>>),
  Variable(2094, "NodesToDelete", 2093, HasProperty, 68, 382),
  Links(2094, HasModellingRule, <<78>>),
  ObjectType(2095, "AuditAddReferencesEventType", 2090, HasSubtype),
  Links(2095, HasProperty, <<2096>>),
  Variable(2096, "ReferencesToAdd", 2095, HasProperty, 68, 379) >>

P5_AuditAddReferencesEventType_ReferencesToAdd_References == <<
  Links(2096, HasModellingRule, <<78>>),
  ObjectType(2097, "AuditDeleteReferencesEventType", 2090, HasSubtype),
  Links(2097, HasProperty, <<2098>>),
  Variable(2098, "ReferencesToDelete", 2097, HasProperty, 68, 385),
  Links(2098, HasModellingRule, <<78>>),
  ObjectType(2099, "AuditUpdateEventType", 2052, HasSubtype),
  ObjectType(2100, "AuditWriteUpdateEventType", 2099, HasSubtype),
  Links(2100, HasProperty, <<2750, 2101, 2102, 2103>>),
  Variable(2750, "AttributeId", 2100, HasProperty, 68, 7) >>

P5_AuditWriteUpdateEventType_AttributeId_References == <<
  Links(2750, HasModellingRule, <<78>>),
  Variable(2101, "IndexRange", 2100, HasProperty, 68, 291),
  Links(2101, HasModellingRule, <<78>>),
  Variable(2102, "OldValue", 2100, HasProperty, 68, 12),
  Links(2102, HasModellingRule, <<78>>),
  Variable(2103, "NewValue", 2100, HasProperty, 68, 12),
  Links(2103, HasModellingRule, <<78>>),
  ObjectType(2104, "AuditHistoryUpdateEventType", 2099, HasSubtype),
  Links(2104, HasProperty, <<2751>>),
  Variable(2751, "ParameterDataTypeId", 2104, HasProperty, 68, 17),
  Links(2751, HasModellingRule, <<78>>) >>

P5_AuditUpdateMethodEventType == <<
  ObjectType(2127, "AuditUpdateMethodEventType", 2052, HasSubtype),
  Links(2127, HasProperty, <<2128, 2129>>),
  Variable(2128, "MethodId", 2127, HasProperty, 68, 17),
  Links(2128, HasModellingRule, <<78>>),
  Variable(2129, "InputArguments", 2127, HasProperty, 68, 12),
  Links(2129, HasModellingRule, <<78>>),
  ObjectType(2130, "SystemEventType", 2041, HasSubtype),
  ObjectType(2131, "DeviceFailureEventType", 2130, HasSubtype),
  ObjectType(11446, "SystemStatusChangeEventType", 2130, HasSubtype),
  Links(11446, HasProperty, <<11696>>) >>

P5_SystemStatusChangeEventType_SystemState == <<
  Variable(11696, "SystemState", 11446, HasProperty, 68, 852),
  Links(11696, HasModellingRule, <<78>>),
  ObjectType(2132, "BaseModelChangeEventType", 2041, HasSubtype),
  ObjectType(2133, "GeneralModelChangeEventType", 2132, HasSubtype),
  Links(2133, HasProperty, <<2134>>),
  Variable(2134, "Changes", 2133, HasProperty, 68, 877),
  Links(2134, HasModellingRule, <<78>>),
  ObjectType(2738, "SemanticChangeEventType", 2132, HasSubtype),
  Links(2738, HasProperty, <<2739>>),
  Variable(2739, "Changes", 2738, HasProperty, 68, 897),
  Links(2739, HasModellingRule, <<78>>) >>

P5_EventQueueOverflowEventType == <<
  ObjectType(3035, "EventQueueOverflowEventType", 2041, HasSubtype),
  ObjectType(11436, "ProgressEventType", 2041, HasSubtype),
  ObjectType(2340, "AggregateFunctionType", 58, HasSubtype),
  VariableType(2137, "ServerVendorCapabilityType", 63, HasSubtype, 12),
  VariableType(2138, "ServerStatusType", 63, HasSubtype, 862),
  Links(2138, HasComponent, <<2139, 2140, 2141, 2142, 2752, 2753>>),
  Variable(2139, "StartTime", 2138, HasComponent, 63, 294) >>

P5_ServerStatusType_StartTime_References == <<
  Links(2139, HasModellingRule, <<78>>),
  Variable(2140, "CurrentTime", 2138, HasComponent, 63, 294),
  Links(2140, HasModellingRule, <<78>>),
  Variable(2141, "State", 2138, HasComponent, 63, 852),
  Links(2141, HasModellingRule, <<78>>),
  Variable(2142, "BuildInfo", 2138, HasComponent, 3051, 338),
  Links(2142, HasComponent, <<3698, 3699, 3700, 3701, 3702, 3703>>),
  Links(2142, HasModellingRule, <<78>>) >>

P5_ServerStatusType_BuildInfo_ProductUri == <<
  Variable(3698, "ProductUri", 2142, HasComponent, 63, 12),
  Links(3698, HasModellingRule, <<78>>),
  Variable(3699, "ManufacturerName", 2142, HasComponent, 63, 12),
  Links(3699, HasModellingRule, <<78>>),
  Variable(3700, "ProductName", 2142, HasComponent, 63, 12),
  Links(3700, HasModellingRule, <<78>>),
  Variable(3701, "SoftwareVersion", 2142, HasComponent, 63, 12),
  Links(3701, HasModellingRule, <<78>>),
  Variable(3702, "BuildNumber", 2142, HasComponent, 63, 12),
  Links(3702, HasModellingRule, <<78>>) >>

P5_ServerStatusType_BuildInfo_BuildDate == <<
  Variable(3703, "BuildDate", 2142, HasComponent, 63, 294),
  Links(3703, HasModellingRule, <<78>>),
  Variable(2752, "SecondsTillShutdown", 2138, HasComponent, 63, 7),
  Links(2752, HasModellingRule, <<78>>),
  Variable(2753, "ShutdownReason", 2138, HasComponent, 63, 21),
  Links(2753, HasModellingRule, <<78>>),
  VariableType(3051, "BuildInfoType", 63, HasSubtype, 338),
  Links(3051, HasComponent, <<3052, 3053, 3054, 3055, 3056>>) >>

P5_BuildInfoType_References == <<
  Links(3051, HasComponent, <<3057>>),
  Variable(3052, "ProductUri", 3051, HasComponent, 63, 12),
  Links(3052, HasModellingRule, <<78>>),
  Variable(3053, "ManufacturerName", 3051, HasComponent, 63, 12),
  Links(3053, HasModellingRule, <<78>>),
  Variable(3054, "ProductName", 3051, HasComponent, 63, 12),
  Links(3054, HasModellingRule, <<78>>),
  Variable(3055, "SoftwareVersion", 3051, HasComponent, 63, 12),
  Links(3055, HasModellingRule, <<78>>),
  Variable(3056, "BuildNumber", 3051, HasComponent, 63, 12) >>

P5_BuildInfoType_BuildNumber_References == <<
  Links(3056, HasModellingRule, <<78>>),
  Variable(3057, "BuildDate", 3051, HasComponent, 63, 294),
  Links(3057, HasModellingRule, <<78>>),
  VariableType(2150, "ServerDiagnosticsSummaryType", 63, HasSubtype, 859),
  Links(2150, HasComponent, <<2151, 2152, 2153, 2154, 2155, 2156, 2157, 2159, 2160, 2161>>) >>

P5_ServerDiagnosticsSummaryType_References == <<
  Links(2150, HasComponent, <<2162, 2163>>),
  Variable(2151, "ServerViewCount", 2150, HasComponent, 63, 7),
  Links(2151, HasModellingRule, <<78>>),
  Variable(2152, "CurrentSessionCount", 2150, HasComponent, 63, 7),
  Links(2152, HasModellingRule, <<78>>),
  Variable(2153, "CumulatedSessionCount", 2150, HasComponent, 63, 7),
  Links(2153, HasModellingRule, <<78>>),
  Variable(2154, "SecurityRejectedSessionCount", 2150, HasComponent, 63, 7),
  Links(2154, HasModellingRule, <<78>>),
  Variable(2155, "RejectedSessionCount", 2150, HasComponent, 63, 7) >>

P5_ServerDiagnosticsSummaryType_RejectedSessionCount_References == <<
  Links(2155, HasModellingRule, <<78>>),
  Variable(2156, "SessionTimeoutCount", 2150, HasComponent, 63, 7),
  Links(2156, HasModellingRule, <<78>>),
  Variable(2157, "SessionAbortCount", 2150, HasComponent, 63, 7),
  Links(2157, HasModellingRule, <<78>>),
  Variable(2159, "PublishingIntervalCount", 2150, HasComponent, 63, 7),
  Links(2159, HasModellingRule, <<78>>),
  Variable(2160, "CurrentSubscriptionCount", 2150, HasComponent, 63, 7),
  Links(2160, HasModellingRule, <<78>>),
  Variable(2161, "CumulatedSubscriptionCount", 2150, HasComponent, 63, 7),
  Links(2161, HasModellingRule, <<78>>) >>

P5_ServerDiagnosticsSummaryType_SecurityRejectedRequestsCount == <<
  Variable(2162, "SecurityRejectedRequestsCount", 2150, HasComponent, 63, 7),
  Links(2162, HasModellingRule, <<78>>),
  Variable(2163, "RejectedRequestsCount", 2150, HasComponent, 63, 7),
  Links(2163, HasModellingRule, <<78>>),
  VariableType(2164, "SamplingIntervalDiagnosticsArrayType", 63, HasSubtype, 856),
  VariableType(2165, "SamplingIntervalDiagnosticsType", 63, HasSubtype, 856),
  Links(2165, HasComponent, <<2166, 11697, 11698, 11699>>),
  Variable(2166, "SamplingInterval", 2165, HasComponent, 63, 290),
  Links(2166, HasModellingRule, <<78>>) >>

P5_SamplingIntervalDiagnosticsType_SampledMonitoredItemsCount == <<
  Variable(11697, "SampledMonitoredItemsCount", 2165, HasComponent, 63, 7),
  Links(11697, HasModellingRule, <<78>>),
  Variable(11698, "MaxSampledMonitoredItemsCount", 2165, HasComponent, 63, 7),
  Links(11698, HasModellingRule, <<78>>),
  Variable(11699, "DisabledMonitoredItemsSamplingCount", 2165, HasComponent, 63, 7),
  Links(11699, HasModellingRule, <<78>>),
  VariableType(2171, "SubscriptionDiagnosticsArrayType", 63, HasSubtype, 874),
  VariableType(2172, "SubscriptionDiagnosticsType", 63, HasSubtype, 874),
  Links(2172, HasComponent, <<2173, 2174, 2175, 2176>>) >>

P5_SubscriptionDiagnosticsType_References == <<
  Links(2172, HasComponent, <<2177, 8888, 2179, 2180, 2181, 2182, 2183, 2184, 2185, 2186,
      2187, 2188, 2189, 2190, 2191, 2998>>) >>

P5_SubscriptionDiagnosticsType_References_2 == <<
  Links(2172, HasComponent, <<2193, 8889, 8890, 8891, 8892, 8893, 8894, 8895, 8896, 8897,
      8902>>),
  Variable(2173, "SessionId", 2172, HasComponent, 63, 17),
  Links(2173, HasModellingRule, <<78>>),
  Variable(2174, "SubscriptionId", 2172, HasComponent, 63, 7) >>

P5_SubscriptionDiagnosticsType_SubscriptionId_References == <<
  Links(2174, HasModellingRule, <<78>>),
  Variable(2175, "Priority", 2172, HasComponent, 63, 3),
  Links(2175, HasModellingRule, <<78>>),
  Variable(2176, "PublishingInterval", 2172, HasComponent, 63, 11),
  Links(2176, HasModellingRule, <<78>>),
  Variable(2177, "MaxKeepAliveCount", 2172, HasComponent, 63, 7),
  Links(2177, HasModellingRule, <<78>>),
  Variable(8888, "MaxLifetimeCount", 2172, HasComponent, 63, 7),
  Links(8888, HasModellingRule, <<78>>),
  Variable(2179, "MaxNotificationsPerPublish", 2172, HasComponent, 63, 7),
  Links(2179, HasModellingRule, <<78>>) >>

P5_SubscriptionDiagnosticsType_PublishingEnabled == <<
  Variable(2180, "PublishingEnabled", 2172, HasComponent, 63, 1),
  Links(2180, HasModellingRule, <<78>>),
  Variable(2181, "ModifyCount", 2172, HasComponent, 63, 7),
  Links(2181, HasModellingRule, <<78>>),
  Variable(2182, "EnableCount", 2172, HasComponent, 63, 7),
  Links(2182, HasModellingRule, <<78>>),
  Variable(2183, "DisableCount", 2172, HasComponent, 63, 7),
  Links(2183, HasModellingRule, <<78>>),
  Variable(2184, "RepublishRequestCount", 2172, HasComponent, 63, 7),
  Links(2184, HasModellingRule, <<78>>),
  Variable(2185, "RepublishMessageRequestCount", 2172, HasComponent, 63, 7) >>

P5_SubscriptionDiagnosticsType_RepublishMessageRequestCount_References == <<
  Links(2185, HasModellingRule, <<78>>),
  Variable(2186, "RepublishMessageCount", 2172, HasComponent, 63, 7),
  Links(2186, HasModellingRule, <<78>>),
  Variable(2187, "TransferRequestCount", 2172, HasComponent, 63, 7),
  Links(2187, HasModellingRule, <<78>>),
  Variable(2188, "TransferredToAltClientCount", 2172, HasComponent, 63, 7),
  Links(2188, HasModellingRule, <<78>>),
  Variable(2189, "TransferredToSameClientCount", 2172, HasComponent, 63, 7),
  Links(2189, HasModellingRule, <<78>>),
  Variable(2190, "PublishRequestCount", 2172, HasComponent, 63, 7),
  Links(2190, HasModellingRule, <<78>>) >>

P5_SubscriptionDiagnosticsType_DataChangeNotificationsCount == <<
  Variable(2191, "DataChangeNotificationsCount", 2172, HasComponent, 63, 7),
  Links(2191, HasModellingRule, <<78>>),
  Variable(2998, "EventNotificationsCount", 2172, HasComponent, 63, 7),
  Links(2998, HasModellingRule, <<78>>),
  Variable(2193, "NotificationsCount", 2172, HasComponent, 63, 7),
  Links(2193, HasModellingRule, <<78>>),
  Variable(8889, "LatePublishRequestCount", 2172, HasComponent, 63, 7),
  Links(8889, HasModellingRule, <<78>>),
  Variable(8890, "CurrentKeepAliveCount", 2172, HasComponent, 63, 7),
  Links(8890, HasModellingRule, <<78>>),
  Variable(8891, "CurrentLifetimeCount", 2172, HasComponent, 63, 7) >>

P5_SubscriptionDiagnosticsType_CurrentLifetimeCount_References == <<
  Links(8891, HasModellingRule, <<78>>),
  Variable(8892, "UnacknowledgedMessageCount", 2172, HasComponent, 63, 7),
  Links(8892, HasModellingRule, <<78>>),
  Variable(8893, "DiscardedMessageCount", 2172, HasComponent, 63, 7),
  Links(8893, HasModellingRule, <<78>>),
  Variable(8894, "MonitoredItemCount", 2172, HasComponent, 63, 7),
  Links(8894, HasModellingRule, <<78>>),
  Variable(8895, "DisabledMonitoredItemCount", 2172, HasComponent, 63, 7),
  Links(8895, HasModellingRule, <<78>>),
  Variable(8896, "MonitoringQueueOverflowCount", 2172, HasComponent, 63, 7),
  Links(8896, HasModellingRule, <<78>>) >>

P5_SubscriptionDiagnosticsType_NextSequenceNumber == <<
  Variable(8897, "NextSequenceNumber", 2172, HasComponent, 63, 7),
  Links(8897, HasModellingRule, <<78>>),
  Variable(8902, "EventQueueOverFlowCount", 2172, HasComponent, 63, 7),
  Links(8902, HasModellingRule, <<78>>),
  VariableType(2196, "SessionDiagnosticsArrayType", 63, HasSubtype, 865),
  VariableType(2197, "SessionDiagnosticsVariableType", 63, HasSubtype, 865),
  Links(2197, HasComponent, <<2198, 2199, 2200, 2201, 2202, 2203, 2204>>) >>

P5_SessionDiagnosticsVariableType_References == <<
  Links(2197, HasComponent, <<3050, 2205, 2206, 2207, 2208, 2209, 8900, 11892, 2217, 2218,
      2219, 2220, 2221, 2222, 2223, 2224>>) >>

P5_SessionDiagnosticsVariableType_References_2 == <<
  Links(2197, HasComponent, <<2225, 2226, 2227, 2228, 2229, 2230, 2231, 2232, 2233, 2234,
      2235, 2236, 2237, 2238, 2239, 2240>>) >>

P5_SessionDiagnosticsVariableType_References_3 == <<
  Links(2197, HasComponent, <<2241, 2242, 2730, 2731>>),
  Variable(2198, "SessionId", 2197, HasComponent, 63, 17),
  Links(2198, HasModellingRule, <<78>>),
  Variable(2199, "SessionName", 2197, HasComponent, 63, 12),
  Links(2199, HasModellingRule, <<78>>),
  Variable(2200, "ClientDescription", 2197, HasComponent, 63, 308),
  Links(2200, HasModellingRule, <<78>>),
  Variable(2201, "ServerUri", 2197, HasComponent, 63, 12),
  Links(2201, HasModellingRule, <<78>>) >>

P5_SessionDiagnosticsVariableType_EndpointUrl == <<
  Variable(2202, "EndpointUrl", 2197, HasComponent, 63, 12),
  Links(2202, HasModellingRule, <<78>>),
  Variable(2203, "LocaleIds", 2197, HasComponent, 63, 295),
  Links(2203, HasModellingRule, <<78>>),
  Variable(2204, "ActualSessionTimeout", 2197, HasComponent, 63, 290),
  Links(2204, HasModellingRule, <<78>>),
  Variable(3050, "MaxResponseMessageSize", 2197, HasComponent, 63, 7),
  Links(3050, HasModellingRule, <<78>>),
  Variable(2205, "ClientConnectionTime", 2197, HasComponent, 63, 294),
  Links(2205, HasModellingRule, <<78>>),
  Variable(2206, "ClientLastContactTime", 2197, HasComponent, 63, 294) >>

P5_SessionDiagnosticsVariableType_ClientLastContactTime_References == <<
  Links(2206, HasModellingRule, <<78>>),
  Variable(2207, "CurrentSubscriptionsCount", 2197, HasComponent, 63, 7),
  Links(2207, HasModellingRule, <<78>>),
  Variable(2208, "CurrentMonitoredItemsCount", 2197, HasComponent, 63, 7),
  Links(2208, HasModellingRule, <<78>>),
  Variable(2209, "CurrentPublishRequestsInQueue", 2197, HasComponent, 63, 7),
  Links(2209, HasModellingRule, <<78>>),
  Variable(8900, "TotalRequestCount", 2197, HasComponent, 63, 871),
  Links(8900, HasModellingRule, <<78>>),
  Variable(11892, "UnauthorizedRequestCount", 2197, HasComponent, 63, 7),
  Links(11892, HasModellingRule, <<78>>) >>

P5_SessionDiagnosticsVariableType_ReadCount == <<
  Variable(2217, "ReadCount", 2197, HasComponent, 63, 871),
  Links(2217, HasModellingRule, <<78>>),
  Variable(2218, "HistoryReadCount", 2197, HasComponent, 63, 871),
  Links(2218, HasModellingRule, <<78>>),
  Variable(2219, "WriteCount", 2197, HasComponent, 63, 871),
  Links(2219, HasModellingRule, <<78>>),
  Variable(2220, "HistoryUpdateCount", 2197, HasComponent, 63, 871),
  Links(2220, HasModellingRule, <<78>>),
  Variable(2221, "CallCount", 2197, HasComponent, 63, 871),
  Links(2221, HasModellingRule, <<78>>),
  Variable(2222, "CreateMonitoredItemsCount", 2197, HasComponent, 63, 871) >>

P5_SessionDiagnosticsVariableType_CreateMonitoredItemsCount_References == <<
  Links(2222, HasModellingRule, <<78>>),
  Variable(2223, "ModifyMonitoredItemsCount", 2197, HasComponent, 63, 871),
  Links(2223, HasModellingRule, <<78>>),
  Variable(2224, "SetMonitoringModeCount", 2197, HasComponent, 63, 871),
  Links(2224, HasModellingRule, <<78>>),
  Variable(2225, "SetTriggeringCount", 2197, HasComponent, 63, 871),
  Links(2225, HasModellingRule, <<78>>),
  Variable(2226, "DeleteMonitoredItemsCount", 2197, HasComponent, 63, 871),
  Links(2226, HasModellingRule, <<78>>),
  Variable(2227, "CreateSubscriptionCount", 2197, HasComponent, 63, 871),
  Links(2227, HasModellingRule, <<78>>) >>

P5_SessionDiagnosticsVariableType_ModifySubscriptionCount == <<
  Variable(2228, "ModifySubscriptionCount", 2197, HasComponent, 63, 871),
  Links(2228, HasModellingRule, <<78>>),
  Variable(2229, "SetPublishingModeCount", 2197, HasComponent, 63, 871),
  Links(2229, HasModellingRule, <<78>>),
  Variable(2230, "PublishCount", 2197, HasComponent, 63, 871),
  Links(2230, HasModellingRule, <<78>>),
  Variable(2231, "RepublishCount", 2197, HasComponent, 63, 871),
  Links(2231, HasModellingRule, <<78>>),
  Variable(2232, "TransferSubscriptionsCount", 2197, HasComponent, 63, 871),
  Links(2232, HasModellingRule, <<78>>),
  Variable(2233, "DeleteSubscriptionsCount", 2197, HasComponent, 63, 871) >>

P5_SessionDiagnosticsVariableType_DeleteSubscriptionsCount_References == <<
  Links(2233, HasModellingRule, <<78>>),
  Variable(2234, "AddNodesCount", 2197, HasComponent, 63, 871),
  Links(2234, HasModellingRule, <<78>>),
  Variable(2235, "AddReferencesCount", 2197, HasComponent, 63, 871),
  Links(2235, HasModellingRule, <<78>>),
  Variable(2236, "DeleteNodesCount", 2197, HasComponent, 63, 871),
  Links(2236, HasModellingRule, <<78>>),
  Variable(2237, "DeleteReferencesCount", 2197, HasComponent, 63, 871),
  Links(2237, HasModellingRule, <<78>>),
  Variable(2238, "BrowseCount", 2197, HasComponent, 63, 871),
  Links(2238, HasModellingRule, <<78>>) >>

P5_SessionDiagnosticsVariableType_BrowseNextCount == <<
  Variable(2239, "BrowseNextCount", 2197, HasComponent, 63, 871),
  Links(2239, HasModellingRule, <<78>>),
  Variable(2240, "TranslateBrowsePathsToNodeIdsCount", 2197, HasComponent, 63, 871),
  Links(2240, HasModellingRule, <<78>>),
  Variable(2241, "QueryFirstCount", 2197, HasComponent, 63, 871),
  Links(2241, HasModellingRule, <<78>>),
  Variable(2242, "QueryNextCount", 2197, HasComponent, 63, 871),
  Links(2242, HasModellingRule, <<78>>),
  Variable(2730, "RegisterNodesCount", 2197, HasComponent, 63, 871),
  Links(2730, HasModellingRule, <<78>>),
  Variable(2731, "UnregisterNodesCount", 2197, HasComponent, 63, 871) >>

P5_SessionDiagnosticsVariableType_UnregisterNodesCount_References == <<
  Links(2731, HasModellingRule, <<78>>),
  VariableType(2243, "SessionSecurityDiagnosticsArrayType", 63, HasSubtype, 868),
  VariableType(2244, "SessionSecurityDiagnosticsType", 63, HasSubtype, 868),
  Links(2244, HasComponent, <<2245, 2246, 2247, 2248, 2249, 2250, 2251, 2252, 3058>>),
  Variable(2245, "SessionId", 2244, HasComponent, 63, 17) >>

P5_SessionSecurityDiagnosticsType_SessionId_References == <<
  Links(2245, HasModellingRule, <<78>>),
  Variable(2246, "ClientUserIdOfSession", 2244, HasComponent, 63, 12),
  Links(2246, HasModellingRule, <<78>>),
  Variable(2247, "ClientUserIdHistory", 2244, HasComponent, 63, 12),
  Links(2247, HasModellingRule, <<78>>),
  Variable(2248, "AuthenticationMechanism", 2244, HasComponent, 63, 12),
  Links(2248, HasModellingRule, <<78>>),
  Variable(2249, "Encoding", 2244, HasComponent, 63, 12),
  Links(2249, HasModellingRule, <<78>>),
  Variable(2250, "TransportProtocol", 2244, HasComponent, 63, 12),
  Links(2250, HasModellingRule, <<78>>) >>

P5_SessionSecurityDiagnosticsType_SecurityMode == <<
  Variable(2251, "SecurityMode", 2244, HasComponent, 63, 302),
  Links(2251, HasModellingRule, <<78>>),
  Variable(2252, "SecurityPolicyUri", 2244, HasComponent, 63, 12),
  Links(2252, HasModellingRule, <<78>>),
  Variable(3058, "ClientCertificate", 2244, HasComponent, 63, 15),
  Links(3058, HasModellingRule, <<78>>),
  VariableType(11487, "OptionSetType", 63, HasSubtype, 12),
  Links(11487, HasProperty, <<11488, 11701>>),
  Variable(11488, "OptionSetValues", 11487, HasProperty, 68, 21),
  Links(11488, HasModellingRule, <<78>>) >>

P5_OptionSetType_BitMask == <<
  Variable(11701, "BitMask", 11487, HasProperty, 68, 1),
  Links(11701, HasModellingRule, <<80>>),
  Object(3048, "EventTypes", 86, Organizes, 61),
  Links(3048, Organizes, <<2041>>),
  Object(2253, "Server", 85, Organizes, 2004),
  Links(2253, HasProperty, <<2254, 2255>>),
  Links(2253, HasComponent, <<2256>>),
  Links(2253, HasProperty, <<2267, 2994>>),
  Links(2253, HasComponent, <<2268, 2274, 2295, 2296>>) >>

P5_Server_References == <<
  Links(2253, HasComponent, <<11715, 11492>>),
  Variable(2254, "ServerArray", 2253, HasProperty, 68, 12),
  Variable(2255, "NamespaceArray", 2253, HasProperty, 68, 12),
  Variable(2256, "ServerStatus", 2253, HasComponent, 2138, 862),
  Links(2256, HasComponent, <<2257, 2258, 2259, 2260, 2992, 2993>>),
  Variable(2257, "StartTime", 2256, HasComponent, 63, 294) >>

P5_Server_ServerStatus_CurrentTime == <<
  Variable(2258, "CurrentTime", 2256, HasComponent, 63, 294),
  Variable(2259, "State", 2256, HasComponent, 63, 852),
  Variable(2260, "BuildInfo", 2256, HasComponent, 3051, 338),
  Links(2260, HasComponent, <<2262, 2263, 2261, 2264, 2265, 2266>>),
  Variable(2262, "ProductUri", 2260, HasComponent, 63, 12),
  Variable(2263, "ManufacturerName", 2260, HasComponent, 63, 12) >>

P5_Server_ServerStatus_BuildInfo_ProductName == <<
  Variable(2261, "ProductName", 2260, HasComponent, 63, 12),
  Variable(2264, "SoftwareVersion", 2260, HasComponent, 63, 12),
  Variable(2265, "BuildNumber", 2260, HasComponent, 63, 12),
  Variable(2266, "BuildDate", 2260, HasComponent, 63, 294),
  Variable(2992, "SecondsTillShutdown", 2256, HasComponent, 63, 7),
  Variable(2993, "ShutdownReason", 2256, HasComponent, 63, 21),
  Variable(2267, "ServiceLevel", 2253, HasProperty, 68, 3),
  Variable(2994, "Auditing", 2253, HasProperty, 68, 1) >>

P5_Server_ServerCapabilities == <<
  Object(2268, "ServerCapabilities", 2253, HasComponent, 2013),
  Links(2268, HasProperty, <<2269, 2271, 2272, 2735, 2736, 2737, 3704, 11702, 11703>>),
  Links(2268, HasComponent, <<11704, 2996, 2997>>),
  Variable(2269, "ServerProfileArray", 2268, HasProperty, 68, 12) >>

P5_Server_ServerCapabilities_LocaleIdArray == <<
  Variable(2271, "LocaleIdArray", 2268, HasProperty, 68, 295),
  Variable(2272, "MinSupportedSampleRate", 2268, HasProperty, 68, 290),
  Variable(2735, "MaxBrowseContinuationPoints", 2268, HasProperty, 68, 5),
  Variable(2736, "MaxQueryContinuationPoints", 2268, HasProperty, 68, 5),
  Variable(2737, "MaxHistoryContinuationPoints", 2268, HasProperty, 68, 5),
  Variable(3704, "SoftwareCertificates", 2268, HasProperty, 68, 344),
  Variable(11702, "MaxArrayLength", 2268, HasProperty, 68, 7),
  Variable(11703, "MaxStringLength", 2268, HasProperty, 68, 7) >>

P5_Server_ServerCapabilities_OperationLimits == <<
  Object(11704, "OperationLimits", 2268, HasComponent, 11564),
  Links(11704, HasProperty, <<11705, 12165, 12166, 11707, 12167, 12168, 11709, 11710,
      11711, 11712, 11713, 11714>>),
  Variable(11705, "MaxNodesPerRead", 11704, HasProperty, 68, 7) >>

P5_Server_ServerCapabilities_OperationLimits_MaxNodesPerHistoryReadData == <<
  Variable(12165, "MaxNodesPerHistoryReadData", 11704, HasProperty, 68, 7),
  Variable(12166, "MaxNodesPerHistoryReadEvents", 11704, HasProperty, 68, 7),
  Variable(11707, "MaxNodesPerWrite", 11704, HasProperty, 68, 7),
  Variable(12167, "MaxNodesPerHistoryUpdateData", 11704, HasProperty, 68, 7),
  Variable(12168, "MaxNodesPerHistoryUpdateEvents", 11704, HasProperty, 68, 7),
  Variable(11709, "MaxNodesPerMethodCall", 11704, HasProperty, 68, 7),
  Variable(11710, "MaxNodesPerBrowse", 11704, HasProperty, 68, 7),
  Variable(11711, "MaxNodesPerRegisterNodes", 11704, HasProperty, 68, 7) >>

P5_Server_ServerCapabilities_OperationLimits_MaxNodesPerTranslateBrowsePathsToNodeIds == <<
  Variable(11712, "MaxNodesPerTranslateBrowsePathsToNodeIds", 11704, HasProperty, 68, 7),
  Variable(11713, "MaxNodesPerNodeManagement", 11704, HasProperty, 68, 7),
  Variable(11714, "MaxMonitoredItemsPerCall", 11704, HasProperty, 68, 7),
  Object(2996, "ModellingRules", 2268, HasComponent, 61),
  Object(2997, "AggregateFunctions", 2268, HasComponent, 61),
  Object(2274, "ServerDiagnostics", 2253, HasComponent, 2020),
  Links(2274, HasComponent, <<2275, 2289, 2290, 3706>>),
  Links(2274, HasProperty, <<2294>>) >>

P5_Server_ServerDiagnostics_ServerDiagnosticsSummary == <<
  Variable(2275, "ServerDiagnosticsSummary", 2274, HasComponent, 2150, 859),
  Links(2275, HasComponent, <<2276, 2277, 2278, 2279, 3705, 2281, 2282, 2284, 2285, 2286,
      2287, 2288>>),
  Variable(2276, "ServerViewCount", 2275, HasComponent, 63, 7) >>

P5_Server_ServerDiagnostics_ServerDiagnosticsSummary_CurrentSessionCount == <<
  Variable(2277, "CurrentSessionCount", 2275, HasComponent, 63, 7),
  Variable(2278, "CumulatedSessionCount", 2275, HasComponent, 63, 7),
  Variable(2279, "SecurityRejectedSessionCount", 2275, HasComponent, 63, 7),
  Variable(3705, "RejectedSessionCount", 2275, HasComponent, 63, 7),
  Variable(2281, "SessionTimeoutCount", 2275, HasComponent, 63, 7),
  Variable(2282, "SessionAbortCount", 2275, HasComponent, 63, 7),
  Variable(2284, "PublishingIntervalCount", 2275, HasComponent, 63, 7),
  Variable(2285, "CurrentSubscriptionCount", 2275, HasComponent, 63, 7),
  Variable(2286, "CumulatedSubscriptionCount", 2275, HasComponent, 63, 7) >>

P5_Server_ServerDiagnostics_ServerDiagnosticsSummary_SecurityRejectedRequestsCount == <<
  Variable(2287, "SecurityRejectedRequestsCount", 2275, HasComponent, 63, 7),
  Variable(2288, "RejectedRequestsCount", 2275, HasComponent, 63, 7),
  Variable(2289, "SamplingIntervalDiagnosticsArray", 2274, HasComponent, 2164, 856),
  Variable(2290, "SubscriptionDiagnosticsArray", 2274, HasComponent, 2171, 874),
  Object(3706, "SessionsDiagnosticsSummary", 2274, HasComponent, 2026),
  Links(3706, HasComponent, <<3707, 3708>>),
  Variable(3707, "SessionDiagnosticsArray", 3706, HasComponent, 2196, 865),
  Variable(3708, "SessionSecurityDiagnosticsArray", 3706, HasComponent, 2243, 868) >>

P5_Server_ServerDiagnostics_EnabledFlag == <<
  Variable(2294, "EnabledFlag", 2274, HasProperty, 68, 1),
  Object(2295, "VendorServerInfo", 2253, HasComponent, 2033),
  Object(2296, "ServerRedundancy", 2253, HasComponent, 2034),
  Links(2296, HasProperty, <<3709, 11312, 11313, 11314>>),
  Variable(3709, "RedundancySupport", 2296, HasProperty, 68, 851),
  Variable(11312, "CurrentServerId", 2296, HasProperty, 68, 12),
  Variable(11313, "RedundantServerArray", 2296, HasProperty, 68, 853) >>

P5_Server_ServerRedundancy_ServerUriArray == <<
  Variable(11314, "ServerUriArray", 2296, HasProperty, 68, 12),
  Object(11715, "Namespaces", 2253, HasComponent, 11645),
  Variable(11493, "InputArguments", 11492, HasProperty, 68, 296),
  Variable(11494, "OutputArguments", 11492, HasProperty, 68, 296),
  DataType(11737, "BitFieldMaskDataType", 9, HasSubtype),
  ObjectType(2299, "StateMachineType", 58, HasSubtype),
  Links(2299, HasComponent, <<2769, 2770>>),
  Variable(2769, "CurrentState", 2299, HasComponent, 2755, 21),
  Links(2769, HasProperty, <<3720>>),
  Links(2769, HasModellingRule, <<78>>) >>

P5_StateMachineType_CurrentState_Id == <<
  Variable(3720, "Id", 2769, HasProperty, 68, 12),
  Links(3720, HasModellingRule, <<78>>),
  Variable(2770, "LastTransition", 2299, HasComponent, 2762, 21),
  Links(2770, HasProperty, <<3724>>),
  Links(2770, HasModellingRule, <<80>>),
  Variable(3724, "Id", 2770, HasProperty, 68, 12),
  Links(3724, HasModellingRule, <<78>>),
  VariableType(2755, "StateVariableType", 63, HasSubtype, 21),
  Links(2755, HasProperty, <<2756, 2757, 2758, 2759>>) >>

P5_StateVariableType_Id == <<
  Variable(2756, "Id", 2755, HasProperty, 68, 12),
  Links(2756, HasModellingRule, <<78>>),
  Variable(2757, "Name", 2755, HasProperty, 68, 20),
  Links(2757, HasModellingRule, <<80>>),
  Variable(2758, "Number", 2755, HasProperty, 68, 7),
  Links(2758, HasModellingRule, <<80>>),
  Variable(2759, "EffectiveDisplayName", 2755, HasProperty, 68, 21),
  Links(2759, HasModellingRule, <<80>>),
  VariableType(2762, "TransitionVariableType", 63, HasSubtype, 21),
  Links(2762, HasProperty, <<2763, 2764, 2765>>) >>

P5_TransitionVariableType_References == <<
  Links(2762, HasProperty, <<2766, 11456>>),
  Variable(2763, "Id", 2762, HasProperty, 68, 12),
  Links(2763, HasModellingRule, <<78>>),
  Variable(2764, "Name", 2762, HasProperty, 68, 20),
  Links(2764, HasModellingRule, <<80>>),
  Variable(2765, "Number", 2762, HasProperty, 68, 7),
  Links(2765, HasModellingRule, <<80>>),
  Variable(2766, "TransitionTime", 2762, HasProperty, 68, 294),
  Links(2766, HasModellingRule, <<80>>),
  Variable(11456, "EffectiveTransitionTime", 2762, HasProperty, 68, 294) >>

P5_TransitionVariableType_EffectiveTransitionTime_References == <<
  Links(11456, HasModellingRule, <<80>>),
  ObjectType(2771, "FiniteStateMachineType", 2299, HasSubtype),
  Links(2771, HasComponent, <<2772, 2773>>),
  Variable(2772, "CurrentState", 2771, HasComponent, 2760, 21),
  Links(2772, HasProperty, <<3728>>),
  Links(2772, HasModellingRule, <<78>>),
  Variable(3728, "Id", 2772, HasProperty, 68, 17),
  Links(3728, HasModellingRule, <<78>>),
  Variable(2773, "LastTransition", 2771, HasComponent, 2767, 21),
  Links(2773, HasProperty, <<3732>>),
  Links(2773, HasModellingRule, <<80>>) >>

P5_FiniteStateMachineType_LastTransition_Id == <<
  Variable(3732, "Id", 2773, HasProperty, 68, 17),
  Links(3732, HasModellingRule, <<78>>),
  VariableType(2760, "FiniteStateVariableType", 2755, HasSubtype, 21),
  Links(2760, HasProperty, <<2761>>),
  Variable(2761, "Id", 2760, HasProperty, 68, 17),
  Links(2761, HasModellingRule, <<78>>),
  VariableType(2767, "FiniteTransitionVariableType", 2762, HasSubtype, 21),
  Links(2767, HasProperty, <<2768>>),
  Variable(2768, "Id", 2767, HasProperty, 68, 17),
  Links(2768, HasModellingRule, <<78>>),
  ObjectType(2307, "StateType", 58, HasSubtype) >>

P5_StateType_References == <<
  Links(2307, HasProperty, <<2308>>),
  Variable(2308, "StateNumber", 2307, HasProperty, 68, 7),
  Links(2308, HasModellingRule, <<78>>),
  ObjectType(2309, "InitialStateType", 2307, HasSubtype),
  ObjectType(2310, "TransitionType", 58, HasSubtype),
  Links(2310, HasProperty, <<2312>>),
  Variable(2312, "TransitionNumber", 2310, HasProperty, 68, 7),
  Links(2312, HasModellingRule, <<78>>),
  ObjectType(2311, "TransitionEventType", 2041, HasSubtype),
  Links(2311, HasComponent, <<2774, 2775, 2776>>) >>

P5_TransitionEventType_Transition == <<
  Variable(2774, "Transition", 2311, HasComponent, 2762, 21),
  Links(2774, HasProperty, <<3754>>),
  Links(2774, HasModellingRule, <<78>>),
  Variable(3754, "Id", 2774, HasProperty, 68, 12),
  Links(3754, HasModellingRule, <<78>>),
  Variable(2775, "FromState", 2311, HasComponent, 2755, 21),
  Links(2775, HasProperty, <<3746>>),
  Links(2775, HasModellingRule, <<78>>),
  Variable(3746, "Id", 2775, HasProperty, 68, 12),
  Links(3746, HasModellingRule, <<78>>),
  Variable(2776, "ToState", 2311, HasComponent, 2755, 21),
  Links(2776, HasProperty, <<3750>>) >>

P5_TransitionEventType_ToState_References == <<
  Links(2776, HasModellingRule, <<78>>),
  Variable(3750, "Id", 2776, HasProperty, 68, 12),
  Links(3750, HasModellingRule, <<78>>),
  ObjectType(2315, "AuditUpdateStateEventType", 2127, HasSubtype),
  Links(2315, HasProperty, <<2777, 2778>>),
  Variable(2777, "OldStateId", 2315, HasProperty, 68, 12),
  Links(2777, HasModellingRule, <<78>>),
  Variable(2778, "NewStateId", 2315, HasProperty, 68, 12),
  Links(2778, HasModellingRule, <<78>>),
  DataType(338, "BuildInfo", 22, HasSubtype) >>

P5_RedundancySupport == <<
  DataType(851, "RedundancySupport", 29, HasSubtype),
  Links(851, HasProperty, <<7611>>),
  Variable(7611, "EnumStrings", 851, HasProperty, 68, 21),
  Links(7611, HasModellingRule, <<78>>),
  DataType(852, "ServerState", 29, HasSubtype),
  Links(852, HasProperty, <<7612>>),
  Variable(7612, "EnumStrings", 852, HasProperty, 68, 21),
  Links(7612, HasModellingRule, <<78>>),
  DataType(853, "RedundantServerDataType", 22, HasSubtype),
  DataType(11943, "EndpointUrlListDataType", 22, HasSubtype),
  DataType(11944, "NetworkGroupDataType", 22, HasSubtype) >>

P5_SamplingIntervalDiagnosticsDataType == <<
  DataType(856, "SamplingIntervalDiagnosticsDataType", 22, HasSubtype),
  DataType(859, "ServerDiagnosticsSummaryDataType", 22, HasSubtype),
  DataType(862, "ServerStatusDataType", 22, HasSubtype),
  DataType(865, "SessionDiagnosticsDataType", 22, HasSubtype),
  DataType(868, "SessionSecurityDiagnosticsDataType", 22, HasSubtype),
  DataType(871, "ServiceCounterDataType", 22, HasSubtype),
  DataType(299, "StatusResult", 22, HasSubtype),
  DataType(874, "SubscriptionDiagnosticsDataType", 22, HasSubtype),
  DataType(877, "ModelChangeStructureDataType", 22, HasSubtype),
  DataType(897, "SemanticChangeStructureDataType", 22, HasSubtype) >>

P5_BuildInfo_Encoding_DefaultXml == <<
  Object(339, "Default XML", 338, HasEncoding, 76),
  Links(339, HasDescription, <<8327>>),
  Object(854, "Default XML", 853, HasEncoding, 76),
  Links(854, HasDescription, <<8843>>),
  Object(11949, "Default XML", 11943, HasEncoding, 76),
  Links(11949, HasDescription, <<11951>>),
  Object(11950, "Default XML", 11944, HasEncoding, 76),
  Links(11950, HasDescription, <<11954>>),
  Object(857, "Default XML", 856, HasEncoding, 76),
  Links(857, HasDescription, <<8846>>),
  Object(860, "Default XML", 859, HasEncoding, 76) >>

P5_ServerDiagnosticsSummaryDataType_Encoding_DefaultXml_References == <<
  Links(860, HasDescription, <<8849>>),
  Object(863, "Default XML", 862, HasEncoding, 76),
  Links(863, HasDescription, <<8852>>),
  Object(866, "Default XML", 865, HasEncoding, 76),
  Links(866, HasDescription, <<8855>>),
  Object(869, "Default XML", 868, HasEncoding, 76),
  Links(869, HasDescription, <<8858>>),
  Object(872, "Default XML", 871, HasEncoding, 76),
  Links(872, HasDescription, <<8861>>),
  Object(300, "Default XML", 299, HasEncoding, 76),
  Links(300, HasDescription, <<8294>>) >>

P5_SubscriptionDiagnosticsDataType_Encoding_DefaultXml == <<
  Object(875, "Default XML", 874, HasEncoding, 76),
  Links(875, HasDescription, <<8864>>),
  Object(878, "Default XML", 877, HasEncoding, 76),
  Links(878, HasDescription, <<8867>>),
  Object(898, "Default XML", 897, HasEncoding, 76),
  Links(898, HasDescription, <<8870>>),
  Variable(8252, "Opc.Ua", 92, HasComponent, 72, 15),
  Links(8252, HasProperty, <<8254>>),
  Links(8252, HasComponent, <<8285, 8291, 8918, 8300, 8297>>) >>

P5_OpcUa_XmlSchema_References == <<
  Links(8252, HasComponent, <<8303, 8417, 8333, 8306, 8309, 8312, 8315, 8318, 8363, 8366,
      8369, 8372, 8321, 8324, 8330, 8564>>) >>

P5_OpcUa_XmlSchema_References_2 == <<
  Links(8252, HasComponent, <<8567, 8570, 8573, 8576, 8579, 8582, 8639, 8702, 8708, 8711,
      8807, 8384, 8387, 8390, 8327, 8843>>) >>

P5_OpcUa_XmlSchema_References_3 == <<
  Links(8252, HasComponent, <<11951, 11954, 8846, 8849, 8852, 8855, 8858, 8861, 8294, 8864,
      8867, 8870, 8873, 8876, 12175, 12178>>) >>

P5_OpcUa_XmlSchema_References_4 == <<
  Links(8252, HasComponent, <<12083, 12086, 8882, 8879>>),
  Variable(8254, "NamespaceUri", 8252, HasProperty, 68, 12),
  Variable(8285, "Argument", 8252, HasComponent, 69, 12),
  Variable(8291, "EnumValueType", 8252, HasComponent, 69, 12),
  Variable(8918, "TimeZoneDataType", 8252, HasComponent, 69, 12),
  Variable(8300, "ApplicationDescription", 8252, HasComponent, 69, 12),
  Variable(8297, "UserTokenPolicy", 8252, HasComponent, 69, 12) >>

P5_OpcUa_XmlSchema_EndpointDescription == <<
  Variable(8303, "EndpointDescription", 8252, HasComponent, 69, 12),
  Variable(8417, "RegisteredServer", 8252, HasComponent, 69, 12),
  Variable(8333, "SignedSoftwareCertificate", 8252, HasComponent, 69, 12),
  Variable(8306, "UserIdentityToken", 8252, HasComponent, 69, 12),
  Variable(8309, "AnonymousIdentityToken", 8252, HasComponent, 69, 12),
  Variable(8312, "UserNameIdentityToken", 8252, HasComponent, 69, 12),
  Variable(8315, "X509IdentityToken", 8252, HasComponent, 69, 12),
  Variable(8318, "IssuedIdentityToken", 8252, HasComponent, 69, 12) >>

P5_OpcUa_XmlSchema_AddNodesItem == <<
  Variable(8363, "AddNodesItem", 8252, HasComponent, 69, 12),
  Variable(8366, "AddReferencesItem", 8252, HasComponent, 69, 12),
  Variable(8369, "DeleteNodesItem", 8252, HasComponent, 69, 12),
  Variable(8372, "DeleteReferencesItem", 8252, HasComponent, 69, 12),
  Variable(8321, "EndpointConfiguration", 8252, HasComponent, 69, 12),
  Variable(8324, "SupportedProfile", 8252, HasComponent, 69, 12),
  Variable(8330, "SoftwareCertificate", 8252, HasComponent, 69, 12),
  Variable(8564, "ContentFilterElement", 8252, HasComponent, 69, 12) >>

P5_OpcUa_XmlSchema_ContentFilter == <<
  Variable(8567, "ContentFilter", 8252, HasComponent, 69, 12),
  Variable(8570, "FilterOperand", 8252, HasComponent, 69, 12),
  Variable(8573, "ElementOperand", 8252, HasComponent, 69, 12),
  Variable(8576, "LiteralOperand", 8252, HasComponent, 69, 12),
  Variable(8579, "AttributeOperand", 8252, HasComponent, 69, 12),
  Variable(8582, "SimpleAttributeOperand", 8252, HasComponent, 69, 12),
  Variable(8639, "HistoryEvent", 8252, HasComponent, 69, 12),
  Variable(8702, "MonitoringFilter", 8252, HasComponent, 69, 12) >>

P5_OpcUa_XmlSchema_EventFilter == <<
  Variable(8708, "EventFilter", 8252, HasComponent, 69, 12),
  Variable(8711, "AggregateConfiguration", 8252, HasComponent, 69, 12),
  Variable(8807, "HistoryEventFieldList", 8252, HasComponent, 69, 12),
  Variable(8384, "ScalarTestType", 8252, HasComponent, 69, 12),
  Variable(8387, "ArrayTestType", 8252, HasComponent, 69, 12),
  Variable(8390, "CompositeTestType", 8252, HasComponent, 69, 12),
  Variable(8327, "BuildInfo", 8252, HasComponent, 69, 12),
  Variable(8843, "RedundantServerDataType", 8252, HasComponent, 69, 12) >>

P5_OpcUa_XmlSchema_EndpointUrlListDataType == <<
  Variable(11951, "EndpointUrlListDataType", 8252, HasComponent, 69, 12),
  Variable(11954, "NetworkGroupDataType", 8252, HasComponent, 69, 12),
  Variable(8846, "SamplingIntervalDiagnosticsDataType", 8252, HasComponent, 69, 12),
  Variable(8849, "ServerDiagnosticsSummaryDataType", 8252, HasComponent, 69, 12),
  Variable(8852, "ServerStatusDataType", 8252, HasComponent, 69, 12),
  Variable(8855, "SessionDiagnosticsDataType", 8252, HasComponent, 69, 12),
  Variable(8858, "SessionSecurityDiagnosticsDataType", 8252, HasComponent, 69, 12),
  Variable(8861, "ServiceCounterDataType", 8252, HasComponent, 69, 12) >>

P5_OpcUa_XmlSchema_StatusResult == <<
  Variable(8294, "StatusResult", 8252, HasComponent, 69, 12),
  Variable(8864, "SubscriptionDiagnosticsDataType", 8252, HasComponent, 69, 12),
  Variable(8867, "ModelChangeStructureDataType", 8252, HasComponent, 69, 12),
  Variable(8870, "SemanticChangeStructureDataType", 8252, HasComponent, 69, 12),
  Variable(8873, "Range", 8252, HasComponent, 69, 12),
  Variable(8876, "EUInformation", 8252, HasComponent, 69, 12),
  Variable(12175, "ComplexNumberType", 8252, HasComponent, 69, 12),
  Variable(12178, "DoubleComplexNumberType", 8252, HasComponent, 69, 12) >>

P5_OpcUa_XmlSchema_AxisInformation == <<
  Variable(12083, "AxisInformation", 8252, HasComponent, 69, 12),
  Variable(12086, "XVType", 8252, HasComponent, 69, 12),
  Variable(8882, "ProgramDiagnosticDataType", 8252, HasComponent, 69, 12),
  Variable(8879, "Annotation", 8252, HasComponent, 69, 12),
  Object(340, "Default Binary", 338, HasEncoding, 76),
  Links(340, HasDescription, <<7692>>),
  Object(855, "Default Binary", 853, HasEncoding, 76),
  Links(855, HasDescription, <<8208>>),
  Object(11957, "Default Binary", 11943, HasEncoding, 76),
  Links(11957, HasDescription, <<11959>>) >>

P5_NetworkGroupDataType_Encoding_DefaultBinary == <<
  Object(11958, "Default Binary", 11944, HasEncoding, 76),
  Links(11958, HasDescription, <<11962>>),
  Object(858, "Default Binary", 856, HasEncoding, 76),
  Links(858, HasDescription, <<8211>>),
  Object(861, "Default Binary", 859, HasEncoding, 76),
  Links(861, HasDescription, <<8214>>),
  Object(864, "Default Binary", 862, HasEncoding, 76),
  Links(864, HasDescription, <<8217>>),
  Object(867, "Default Binary", 865, HasEncoding, 76),
  Links(867, HasDescription, <<8220>>),
  Object(870, "Default Binary", 868, HasEncoding, 76) >>

P5_SessionSecurityDiagnosticsDataType_Encoding_DefaultBinary_References == <<
  Links(870, HasDescription, <<8223>>),
  Object(873, "Default Binary", 871, HasEncoding, 76),
  Links(873, HasDescription, <<8226>>),
  Object(301, "Default Binary", 299, HasEncoding, 76),
  Links(301, HasDescription, <<7659>>),
  Object(876, "Default Binary", 874, HasEncoding, 76),
  Links(876, HasDescription, <<8229>>),
  Object(879, "Default Binary", 877, HasEncoding, 76),
  Links(879, HasDescription, <<8232>>),
  Object(899, "Default Binary", 897, HasEncoding, 76),
  Links(899, HasDescription, <<8235>>) >>

P5_OpcUa_BinarySchema == <<
  Variable(7617, "Opc.Ua", 93, HasComponent, 72, 15),
  Links(7617, HasProperty, <<7619>>),
  Links(7617, HasComponent, <<7650, 7656, 8914, 7665, 7662, 7668, 7782, 7698, 7671, 7674,
      7677, 7680, 7683, 7728>>) >>

P5_OpcUa_BinarySchema_References == <<
  Links(7617, HasComponent, <<7731, 7734, 7737, 7686, 7689, 7695, 7929, 7932, 7935, 7938,
      7941, 7944, 7947, 8004, 8067, 8073>>) >>

P5_OpcUa_BinarySchema_References_2 == <<
  Links(7617, HasComponent, <<8076, 8172, 7749, 7752, 7755, 7692, 8208, 11959, 11962, 8211,
      8214, 8217, 8220, 8223, 8226, 7659>>) >>

P5_OpcUa_BinarySchema_References_3 == <<
  Links(7617, HasComponent, <<8229, 8232, 8235, 8238, 8241, 12183, 12186, 12091, 12094,
      8247, 8244>>),
  Variable(7619, "NamespaceUri", 7617, HasProperty, 68, 12),
  Variable(7650, "Argument", 7617, HasComponent, 69, 12) >>

P5_OpcUa_BinarySchema_EnumValueType == <<
  Variable(7656, "EnumValueType", 7617, HasComponent, 69, 12),
  Variable(8914, "TimeZoneDataType", 7617, HasComponent, 69, 12),
  Variable(7665, "ApplicationDescription", 7617, HasComponent, 69, 12),
  Variable(7662, "UserTokenPolicy", 7617, HasComponent, 69, 12),
  Variable(7668, "EndpointDescription", 7617, HasComponent, 69, 12),
  Variable(7782, "RegisteredServer", 7617, HasComponent, 69, 12),
  Variable(7698, "SignedSoftwareCertificate", 7617, HasComponent, 69, 12),
  Variable(7671, "UserIdentityToken", 7617, HasComponent, 69, 12) >>

P5_OpcUa_BinarySchema_AnonymousIdentityToken == <<
  Variable(7674, "AnonymousIdentityToken", 7617, HasComponent, 69, 12),
  Variable(7677, "UserNameIdentityToken", 7617, HasComponent, 69, 12),
  Variable(7680, "X509IdentityToken", 7617, HasComponent, 69, 12),
  Variable(7683, "IssuedIdentityToken", 7617, HasComponent, 69, 12),
  Variable(7728, "AddNodesItem", 7617, HasComponent, 69, 12),
  Variable(7731, "AddReferencesItem", 7617, HasComponent, 69, 12),
  Variable(7734, "DeleteNodesItem", 7617, HasComponent, 69, 12),
  Variable(7737, "DeleteReferencesItem", 7617, HasComponent, 69, 12) >>

P5_OpcUa_BinarySchema_EndpointConfiguration == <<
  Variable(7686, "EndpointConfiguration", 7617, HasComponent, 69, 12),
  Variable(7689, "SupportedProfile", 7617, HasComponent, 69, 12),
  Variable(7695, "SoftwareCertificate", 7617, HasComponent, 69, 12),
  Variable(7929, "ContentFilterElement", 7617, HasComponent, 69, 12),
  Variable(7932, "ContentFilter", 7617, HasComponent, 69, 12),
  Variable(7935, "FilterOperand", 7617, HasComponent, 69, 12),
  Variable(7938, "ElementOperand", 7617, HasComponent, 69, 12),
  Variable(7941, "LiteralOperand", 7617, HasComponent, 69, 12) >>

P5_OpcUa_BinarySchema_AttributeOperand == <<
  Variable(7944, "AttributeOperand", 7617, HasComponent, 69, 12),
  Variable(7947, "SimpleAttributeOperand", 7617, HasComponent, 69, 12),
  Variable(8004, "HistoryEvent", 7617, HasComponent, 69, 12),
  Variable(8067, "MonitoringFilter", 7617, HasComponent, 69, 12),
  Variable(8073, "EventFilter", 7617, HasComponent, 69, 12),
  Variable(8076, "AggregateConfiguration", 7617, HasComponent, 69, 12),
  Variable(8172, "HistoryEventFieldList", 7617, HasComponent, 69, 12),
  Variable(7749, "ScalarTestType", 7617, HasComponent, 69, 12) >>

P5_OpcUa_BinarySchema_ArrayTestType == <<
  Variable(7752, "ArrayTestType", 7617, HasComponent, 69, 12),
  Variable(7755, "CompositeTestType", 7617, HasComponent, 69, 12),
  Variable(7692, "BuildInfo", 7617, HasComponent, 69, 12),
  Variable(8208, "RedundantServerDataType", 7617, HasComponent, 69, 12),
  Variable(11959, "EndpointUrlListDataType", 7617, HasComponent, 69, 12),
  Variable(11962, "NetworkGroupDataType", 7617, HasComponent, 69, 12),
  Variable(8211, "SamplingIntervalDiagnosticsDataType", 7617, HasComponent, 69, 12),
  Variable(8214, "ServerDiagnosticsSummaryDataType", 7617, HasComponent, 69, 12) >>

P5_OpcUa_BinarySchema_ServerStatusDataType == <<
  Variable(8217, "ServerStatusDataType", 7617, HasComponent, 69, 12),
  Variable(8220, "SessionDiagnosticsDataType", 7617, HasComponent, 69, 12),
  Variable(8223, "SessionSecurityDiagnosticsDataType", 7617, HasComponent, 69, 12),
  Variable(8226, "ServiceCounterDataType", 7617, HasComponent, 69, 12),
  Variable(7659, "StatusResult", 7617, HasComponent, 69, 12),
  Variable(8229, "SubscriptionDiagnosticsDataType", 7617, HasComponent, 69, 12),
  Variable(8232, "ModelChangeStructureDataType", 7617, HasComponent, 69, 12),
  Variable(8235, "SemanticChangeStructureDataType", 7617, HasComponent, 69, 12) >>

P5_OpcUa_BinarySchema_Range == <<
  Variable(8238, "Range", 7617, HasComponent, 69, 12),
  Variable(8241, "EUInformation", 7617, HasComponent, 69, 12),
  Variable(12183, "ComplexNumberType", 7617, HasComponent, 69, 12),
  Variable(12186, "DoubleComplexNumberType", 7617, HasComponent, 69, 12),
  Variable(12091, "AxisInformation", 7617, HasComponent, 69, 12),
  Variable(12094, "XVType", 7617, HasComponent, 69, 12),
  Variable(8247, "ProgramDiagnosticDataType", 7617, HasComponent, 69, 12),
  Variable(8244, "Annotation", 7617, HasComponent, 69, 12) >>

(* The stretches of the function. *)
CreateAddressSpacePart5 == <<P5_FromState, P5_PropertyType,
  P5_DataTypeDictionaryType_DataTypeVersion, P5_ModellingRule_Mandatory,
  P5_ModellingRule_MandatoryShared_References, P5_TypesFolder, P5_XmlSchema_TypeSystem,
  P5_ServerType_ServerArray, P5_ServerType_ServerStatus_StartTime,
  P5_ServerType_ServerStatus_BuildInfo_References,
  P5_ServerType_ServerStatus_BuildInfo_BuildNumber_References,
  P5_ServerType_Auditing_References, P5_ServerType_ServerCapabilities_LocaleIdArray,
  P5_ServerType_ServerCapabilities_SoftwareCertificates,
  P5_ServerType_ServerDiagnostics_ServerDiagnosticsSummary,
  P5_ServerType_ServerDiagnostics_ServerDiagnosticsSummary_ServerViewCount,
  P5_ServerType_ServerDiagnostics_ServerDiagnosticsSummary_SessionTimeoutCount_References,
  P5_ServerType_ServerDiagnostics_ServerDiagnosticsSummary_RejectedRequestsCount,
  P5_ServerType_ServerDiagnostics_SessionsDiagnosticsSummary_SessionSecurityDiagnosticsArray_References,
  P5_ServerType_Namespaces_References, P5_ServerCapabilitiesType_References,
  P5_ServerCapabilitiesType_MaxBrowseContinuationPoints,
  P5_ServerCapabilitiesType_MaxStringLength, P5_ServerDiagnosticsType_References,
  P5_ServerDiagnosticsType_ServerDiagnosticsSummary_References,
  P5_ServerDiagnosticsType_ServerDiagnosticsSummary_RejectedSessionCount,
  P5_ServerDiagnosticsType_ServerDiagnosticsSummary_CumulatedSubscriptionCount_References,
  P5_ServerDiagnosticsType_SessionsDiagnosticsSummary_References,
  P5_SessionsDiagnosticsSummaryType_SessionDiagnosticsArray,
  P5_SessionsDiagnosticsSummaryType_SessionPlaceholder_SessionDiagnostics_References,
  P5_SessionsDiagnosticsSummaryType_SessionPlaceholder_SessionDiagnostics_References_2,
  P5_SessionsDiagnosticsSummaryType_SessionPlaceholder_SessionDiagnostics_References_3,
  P5_SessionsDiagnosticsSummaryType_SessionPlaceholder_SessionDiagnostics_ClientDescription,
  P5_SessionsDiagnosticsSummaryType_SessionPlaceholder_SessionDiagnostics_MaxResponseMessageSize_References,
  P5_SessionsDiagnosticsSummaryType_SessionPlaceholder_SessionDiagnostics_TotalRequestCount,
  P5_SessionsDiagnosticsSummaryType_SessionPlaceholder_SessionDiagnostics_HistoryUpdateCount_References,
  P5_SessionsDiagnosticsSummaryType_SessionPlaceholder_SessionDiagnostics_DeleteMonitoredItemsCount,
  P5_SessionsDiagnosticsSummaryType_SessionPlaceholder_SessionDiagnostics_RepublishCount_References,
  P5_SessionsDiagnosticsSummaryType_SessionPlaceholder_SessionDiagnostics_DeleteReferencesCount,
  P5_SessionsDiagnosticsSummaryType_SessionPlaceholder_SessionDiagnostics_QueryNextCount_References,
  P5_SessionsDiagnosticsSummaryType_SessionPlaceholder_SessionSecurityDiagnostics_References,
  P5_SessionsDiagnosticsSummaryType_SessionPlaceholder_SessionSecurityDiagnostics_Encoding,
  P5_SessionsDiagnosticsSummaryType_SessionPlaceholder_SubscriptionDiagnosticsArray,
  P5_SessionDiagnosticsObjectType_SessionDiagnostics_References,
  P5_SessionDiagnosticsObjectType_SessionDiagnostics_References_2,
  P5_SessionDiagnosticsObjectType_SessionDiagnostics_References_3,
  P5_SessionDiagnosticsObjectType_SessionDiagnostics_ServerUri,
  P5_SessionDiagnosticsObjectType_SessionDiagnostics_ClientConnectionTime_References,
  P5_SessionDiagnosticsObjectType_SessionDiagnostics_UnauthorizedRequestCount,
  P5_SessionDiagnosticsObjectType_SessionDiagnostics_CallCount_References,
  P5_SessionDiagnosticsObjectType_SessionDiagnostics_CreateSubscriptionCount,
  P5_SessionDiagnosticsObjectType_SessionDiagnostics_TransferSubscriptionsCount_References,
  P5_SessionDiagnosticsObjectType_SessionDiagnostics_BrowseCount,
  P5_SessionDiagnosticsObjectType_SessionDiagnostics_RegisterNodesCount_References,
  P5_SessionDiagnosticsObjectType_SessionSecurityDiagnostics_SessionId,
  P5_SessionDiagnosticsObjectType_SessionSecurityDiagnostics_TransportProtocol_References,
  P5_ServerRedundancyType, P5_NonTransparentRedundancyType,
  P5_OperationLimitsType_References, P5_OperationLimitsType_MaxNodesPerHistoryReadEvents,
  P5_OperationLimitsType_MaxNodesPerBrowse, P5_FileType, P5_FileType_Writeable,
  P5_FileType_Close_InputArguments, P5_FileType_GetPosition_OutputArguments_References,
  P5_NamespaceMetadataType_References,
  P5_NamespaceMetadataType_StaticNodeIdIdentifierTypes_References,
  P5_NamespaceMetadataType_NamespaceFile_References,
  P5_NamespaceMetadataType_NamespaceFile_Open_InputArguments,
  P5_NamespaceMetadataType_NamespaceFile_Write_InputArguments_References,
  P5_NamespacesType_NamespaceIdentifier_References,
  P5_NamespacesType_NamespaceIdentifier_NamespacePublicationDate_References,
  P5_NamespacesType_AddressSpaceFile_References,
  P5_NamespacesType_AddressSpaceFile_UserWriteable,
  P5_NamespacesType_AddressSpaceFile_Read_InputArguments,
  P5_NamespacesType_AddressSpaceFile_SetPosition_InputArguments_References,
  P5_BaseEventType_EventType, P5_BaseEventType_LocalTime,
  P5_AuditEventType_ActionTimeStamp, P5_AuditSecurityEventType,
  P5_AuditOpenSecureChannelEventType_ClientCertificate,
  P5_AuditOpenSecureChannelEventType_RequestedLifetime,
  P5_AuditCreateSessionEventType_SecureChannelId, P5_AuditUrlMismatchEventType_EndpointUrl,
  P5_AuditCancelEventType, P5_AuditCertificateDataMismatchEventType_InvalidHostname,
  P5_AuditAddNodesEventType, P5_AuditAddReferencesEventType_ReferencesToAdd_References,
  P5_AuditWriteUpdateEventType_AttributeId_References, P5_AuditUpdateMethodEventType,
  P5_SystemStatusChangeEventType_SystemState, P5_EventQueueOverflowEventType,
  P5_ServerStatusType_StartTime_References, P5_ServerStatusType_BuildInfo_ProductUri,
  P5_ServerStatusType_BuildInfo_BuildDate, P5_BuildInfoType_References,
  P5_BuildInfoType_BuildNumber_References, P5_ServerDiagnosticsSummaryType_References,
  P5_ServerDiagnosticsSummaryType_RejectedSessionCount_References,
  P5_ServerDiagnosticsSummaryType_SecurityRejectedRequestsCount,
  P5_SamplingIntervalDiagnosticsType_SampledMonitoredItemsCount,
  P5_SubscriptionDiagnosticsType_References, P5_SubscriptionDiagnosticsType_References_2,
  P5_SubscriptionDiagnosticsType_SubscriptionId_References,
  P5_SubscriptionDiagnosticsType_PublishingEnabled,
  P5_SubscriptionDiagnosticsType_RepublishMessageRequestCount_References,
  P5_SubscriptionDiagnosticsType_DataChangeNotificationsCount,
  P5_SubscriptionDiagnosticsType_CurrentLifetimeCount_References,
  P5_SubscriptionDiagnosticsType_NextSequenceNumber,
  P5_SessionDiagnosticsVariableType_References,
  P5_SessionDiagnosticsVariableType_References_2,
  P5_SessionDiagnosticsVariableType_References_3,
  P5_SessionDiagnosticsVariableType_EndpointUrl,
  P5_SessionDiagnosticsVariableType_ClientLastContactTime_References,
  P5_SessionDiagnosticsVariableType_ReadCount,
  P5_SessionDiagnosticsVariableType_CreateMonitoredItemsCount_References,
  P5_SessionDiagnosticsVariableType_ModifySubscriptionCount,
  P5_SessionDiagnosticsVariableType_DeleteSubscriptionsCount_References,
  P5_SessionDiagnosticsVariableType_BrowseNextCount,
  P5_SessionDiagnosticsVariableType_UnregisterNodesCount_References,
  P5_SessionSecurityDiagnosticsType_SessionId_References,
  P5_SessionSecurityDiagnosticsType_SecurityMode, P5_OptionSetType_BitMask,
  P5_Server_References, P5_Server_ServerStatus_CurrentTime,
  P5_Server_ServerStatus_BuildInfo_ProductName, P5_Server_ServerCapabilities,
  P5_Server_ServerCapabilities_LocaleIdArray, P5_Server_ServerCapabilities_OperationLimits,
  P5_Server_ServerCapabilities_OperationLimits_MaxNodesPerHistoryReadData,
  P5_Server_ServerCapabilities_OperationLimits_MaxNodesPerTranslateBrowsePathsToNodeIds,
  P5_Server_ServerDiagnostics_ServerDiagnosticsSummary,
  P5_Server_ServerDiagnostics_ServerDiagnosticsSummary_CurrentSessionCount,
  P5_Server_ServerDiagnostics_ServerDiagnosticsSummary_SecurityRejectedRequestsCount,
  P5_Server_ServerDiagnostics_EnabledFlag, P5_Server_ServerRedundancy_ServerUriArray,
  P5_StateMachineType_CurrentState_Id, P5_StateVariableType_Id,
  P5_TransitionVariableType_References,
  P5_TransitionVariableType_EffectiveTransitionTime_References,
  P5_FiniteStateMachineType_LastTransition_Id, P5_StateType_References,
  P5_TransitionEventType_Transition, P5_TransitionEventType_ToState_References,
  P5_RedundancySupport, P5_SamplingIntervalDiagnosticsDataType,
  P5_BuildInfo_Encoding_DefaultXml,
  P5_ServerDiagnosticsSummaryDataType_Encoding_DefaultXml_References,
  P5_SubscriptionDiagnosticsDataType_Encoding_DefaultXml, P5_OpcUa_XmlSchema_References,
  P5_OpcUa_XmlSchema_References_2, P5_OpcUa_XmlSchema_References_3,
  P5_OpcUa_XmlSchema_References_4, P5_OpcUa_XmlSchema_EndpointDescription,
  P5_OpcUa_XmlSchema_AddNodesItem, P5_OpcUa_XmlSchema_ContentFilter,
  P5_OpcUa_XmlSchema_EventFilter, P5_OpcUa_XmlSchema_EndpointUrlListDataType,
  P5_OpcUa_XmlSchema_StatusResult, P5_OpcUa_XmlSchema_AxisInformation,
  P5_NetworkGroupDataType_Encoding_DefaultBinary,
  P5_SessionSecurityDiagnosticsDataType_Encoding_DefaultBinary_References,
  P5_OpcUa_BinarySchema, P5_OpcUa_BinarySchema_References,
  P5_OpcUa_BinarySchema_References_2, P5_OpcUa_BinarySchema_References_3,
  P5_OpcUa_BinarySchema_EnumValueType, P5_OpcUa_BinarySchema_AnonymousIdentityToken,
  P5_OpcUa_BinarySchema_EndpointConfiguration, P5_OpcUa_BinarySchema_AttributeOperand,
  P5_OpcUa_BinarySchema_ArrayTestType, P5_OpcUa_BinarySchema_ServerStatusDataType,
  P5_OpcUa_BinarySchema_Range>>
==============================================================================
