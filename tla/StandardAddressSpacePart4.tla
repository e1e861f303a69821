---------------------- MODULE StandardAddressSpacePart4 ----------------------
(* The calls of CreateAddressSpacePart4, in their order: the nodes and references of
   part 4 of the OPC UA specification that the server adds to its address space when
   it starts. A definition is a stretch of the function, named for its first node; of a
   node's attributes only those that the address space or a property reads are kept. *)
EXTENDS StandardCalls

P4_ExpandedNodeId == <<
  DataType(18, "ExpandedNodeId", 24, HasSubtype),
  DataType(19, "StatusCode", 24, HasSubtype),
  DataType(23, "DataValue", 24, HasSubtype),
  DataType(25, "DiagnosticInfo", 24, HasSubtype),
  DataType(288, "IntegerId", 7, HasSubtype),
  DataType(307, "ApplicationType", 29, HasSubtype),
  Links(307, HasProperty, <<7597>>),
  Variable(7597, "EnumStrings", 307, HasProperty, 68, 21),
  Links(7597, HasModellingRule, <<78>>),
  DataType(308, "ApplicationDescription", 22, HasSubtype) >>

P4_ApplicationInstanceCertificate == <<
  DataType(311, "ApplicationInstanceCertificate", 15, HasSubtype),
  DataType(302, "MessageSecurityMode", 29, HasSubtype),
  Links(302, HasProperty, <<7595>>),
  Variable(7595, "EnumStrings", 302, HasProperty, 68, 21),
  Links(7595, HasModellingRule, <<78>>),
  DataType(303, "UserTokenType", 29, HasSubtype),
  Links(303, HasProperty, <<7596>>),
  Variable(7596, "EnumStrings", 303, HasProperty, 68, 21),
  Links(7596, HasModellingRule, <<78>>),
  DataType(304, "UserTokenPolicy", 22, HasSubtype),
  DataType(312, "EndpointDescription", 22, HasSubtype) >>

P4_RegisteredServer == <<
  DataType(432, "RegisteredServer", 22, HasSubtype),
  DataType(315, "SecurityTokenRequestType", 29, HasSubtype),
  Links(315, HasProperty, <<7598>>),
  Variable(7598, "EnumStrings", 315, HasProperty, 68, 21),
  Links(7598, HasModellingRule, <<78>>),
  DataType(344, "SignedSoftwareCertificate", 22, HasSubtype),
  DataType(388, "SessionAuthenticationToken", 17, HasSubtype),
  DataType(316, "UserIdentityToken", 22, HasSubtype),
  DataType(319, "AnonymousIdentityToken", 316, HasSubtype),
  DataType(322, "UserNameIdentityToken", 316, HasSubtype) >>

P4_X509IdentityToken == <<
  DataType(325, "X509IdentityToken", 316, HasSubtype),
  DataType(938, "IssuedIdentityToken", 316, HasSubtype),
  DataType(348, "NodeAttributesMask", 29, HasSubtype),
  Links(348, HasProperty, <<11881>>),
  Variable(11881, "EnumValues", 348, HasProperty, 68, 7594),
  Links(11881, HasModellingRule, <<78>>),
  DataType(376, "AddNodesItem", 22, HasSubtype),
  DataType(379, "AddReferencesItem", 22, HasSubtype),
  DataType(382, "DeleteNodesItem", 22, HasSubtype),
  DataType(385, "DeleteReferencesItem", 22, HasSubtype) >>

P4_AttributeWriteMask == <<
  DataType(347, "AttributeWriteMask", 29, HasSubtype),
  Links(347, HasProperty, <<11882>>),
  Variable(11882, "EnumValues", 347, HasProperty, 68, 7594),
  Links(11882, HasModellingRule, <<78>>),
  DataType(521, "ContinuationPoint", 15, HasSubtype),
  DataType(289, "Counter", 7, HasSubtype),
  DataType(291, "NumericRange", 12, HasSubtype),
  DataType(292, "Time", 12, HasSubtype),
  DataType(293, "Date", 13, HasSubtype),
  DataType(331, "EndpointConfiguration", 22, HasSubtype) >>

P4_ComplianceLevel == <<
  DataType(334, "ComplianceLevel", 29, HasSubtype),
  Links(334, HasProperty, <<7599>>),
  Variable(7599, "EnumStrings", 334, HasProperty, 68, 21),
  Links(7599, HasModellingRule, <<78>>),
  DataType(335, "SupportedProfile", 22, HasSubtype),
  DataType(341, "SoftwareCertificate", 22, HasSubtype),
  DataType(576, "FilterOperator", 29, HasSubtype),
  Links(576, HasProperty, <<7605>>),
  Variable(7605, "EnumStrings", 576, HasProperty, 68, 21),
  Links(7605, HasModellingRule, <<78>>),
  DataType(583, "ContentFilterElement", 22, HasSubtype) >>

P4_ContentFilter == <<
  DataType(586, "ContentFilter", 22, HasSubtype),
  DataType(589, "FilterOperand", 22, HasSubtype),
  DataType(592, "ElementOperand", 589, HasSubtype),
  DataType(595, "LiteralOperand", 589, HasSubtype),
  DataType(598, "AttributeOperand", 589, HasSubtype),
  DataType(601, "SimpleAttributeOperand", 589, HasSubtype),
  DataType(659, "HistoryEvent", 22, HasSubtype),
  DataType(11234, "HistoryUpdateType", 29, HasSubtype),
  Links(11234, HasProperty, <<11884>>),
  Variable(11884, "EnumValues", 11234, HasProperty, 68, 7594),
  Links(11884, HasModellingRule, <<78>>) >>

P4_PerformUpdateType == <<
  DataType(11293, "PerformUpdateType", 29, HasSubtype),
  Links(11293, HasProperty, <<11885>>),
  Variable(11885, "EnumValues", 11293, HasProperty, 68, 7594),
  Links(11885, HasModellingRule, <<78>>),
  DataType(719, "MonitoringFilter", 22, HasSubtype),
  DataType(725, "EventFilter", 719, HasSubtype),
  DataType(948, "AggregateConfiguration", 22, HasSubtype),
  DataType(920, "HistoryEventFieldList", 22, HasSubtype),
  Object(309, "Default XML", 308, HasEncoding, 76),
  Links(309, HasDescription, <<8300>>),
  Object(305, "Default XML", 304, HasEncoding, 76) >>

P4_UserTokenPolicy_Encoding_DefaultXml_References == <<
  Links(305, HasDescription, <<8297>>),
  Object(313, "Default XML", 312, HasEncoding, 76),
  Links(313, HasDescription, <<8303>>),
  Object(433, "Default XML", 432, HasEncoding, 76),
  Links(433, HasDescription, <<8417>>),
  Object(345, "Default XML", 344, HasEncoding, 76),
  Links(345, HasDescription, <<8333>>),
  Object(317, "Default XML", 316, HasEncoding, 76),
  Links(317, HasDescription, <<8306>>),
  Object(320, "Default XML", 319, HasEncoding, 76),
  Links(320, HasDescription, <<8309>>) >>

P4_UserNameIdentityToken_Encoding_DefaultXml == <<
  Object(323, "Default XML", 322, HasEncoding, 76),
  Links(323, HasDescription, <<8312>>),
  Object(326, "Default XML", 325, HasEncoding, 76),
  Links(326, HasDescription, <<8315>>),
  Object(939, "Default XML", 938, HasEncoding, 76),
  Links(939, HasDescription, <<8318>>),
  Object(377, "Default XML", 376, HasEncoding, 76),
  Links(377, HasDescription, <<8363>>),
  Object(380, "Default XML", 379, HasEncoding, 76),
  Links(380, HasDescription, <<8366>>),
  Object(383, "Default XML", 382, HasEncoding, 76) >>

P4_DeleteNodesItem_Encoding_DefaultXml_References == <<
  Links(383, HasDescription, <<8369>>),
  Object(386, "Default XML", 385, HasEncoding, 76),
  Links(386, HasDescription, <<8372>>),
  Object(332, "Default XML", 331, HasEncoding, 76),
  Links(332, HasDescription, <<8321>>),
  Object(336, "Default XML", 335, HasEncoding, 76),
  Links(336, HasDescription, <<8324>>),
  Object(342, "Default XML", 341, HasEncoding, 76),
  Links(342, HasDescription, <<8330>>),
  Object(584, "Default XML", 583, HasEncoding, 76),
  Links(584, HasDescription, <<8564>>) >>

P4_ContentFilter_Encoding_DefaultXml == <<
  Object(587, "Default XML", 586, HasEncoding, 76),
  Links(587, HasDescription, <<8567>>),
  Object(590, "Default XML", 589, HasEncoding, 76),
  Links(590, HasDescription, <<8570>>),
  Object(593, "Default XML", 592, HasEncoding, 76),
  Links(593, HasDescription, <<8573>>),
  Object(596, "Default XML", 595, HasEncoding, 76),
  Links(596, HasDescription, <<8576>>),
  Object(599, "Default XML", 598, HasEncoding, 76),
  Links(599, HasDescription, <<8579>>),
  Object(602, "Default XML", 601, HasEncoding, 76) >>

P4_SimpleAttributeOperand_Encoding_DefaultXml_References == <<
  Links(602, HasDescription, <<8582>>),
  Object(660, "Default XML", 659, HasEncoding, 76),
  Links(660, HasDescription, <<8639>>),
  Object(720, "Default XML", 719, HasEncoding, 76),
  Links(720, HasDescription, <<8702>>),
  Object(726, "Default XML", 725, HasEncoding, 76),
  Links(726, HasDescription, <<8708>>),
  Object(949, "Default XML", 948, HasEncoding, 76),
  Links(949, HasDescription, <<8711>>),
  Object(921, "Default XML", 920, HasEncoding, 76),
  Links(921, HasDescription, <<8807>>) >>

P4_ApplicationDescription_Encoding_DefaultBinary == <<
  Object(310, "Default Binary", 308, HasEncoding, 76),
  Links(310, HasDescription, <<7665>>),
  Object(306, "Default Binary", 304, HasEncoding, 76),
  Links(306, HasDescription, <<7662>>),
  Object(314, "Default Binary", 312, HasEncoding, 76),
  Links(314, HasDescription, <<7668>>),
  Object(434, "Default Binary", 432, HasEncoding, 76),
  Links(434, HasDescription, <<7782>>),
  Object(346, "Default Binary", 344, HasEncoding, 76),
  Links(346, HasDescription, <<7698>>),
  Object(318, "Default Binary", 316, HasEncoding, 76) >>

P4_UserIdentityToken_Encoding_DefaultBinary_References == <<
  Links(318, HasDescription, <<7671>>),
  Object(321, "Default Binary", 319, HasEncoding, 76),
  Links(321, HasDescription, <<7674>>),
  Object(324, "Default Binary", 322, HasEncoding, 76),
  Links(324, HasDescription, <<7677>>),
  Object(327, "Default Binary", 325, HasEncoding, 76),
  Links(327, HasDescription, <<7680>>),
  Object(940, "Default Binary", 938, HasEncoding, 76),
  Links(940, HasDescription, <<7683>>),
  Object(378, "Default Binary", 376, HasEncoding, 76),
  Links(378, HasDescription, <<7728>>) >>

P4_AddReferencesItem_Encoding_DefaultBinary == <<
  Object(381, "Default Binary", 379, HasEncoding, 76),
  Links(381, HasDescription, <<7731>>),
  Object(384, "Default Binary", 382, HasEncoding, 76),
  Links(384, HasDescription, <<7734>>),
  Object(387, "Default Binary", 385, HasEncoding, 76),
  Links(387, HasDescription, <<7737>>),
  Object(333, "Default Binary", 331, HasEncoding, 76),
  Links(333, HasDescription, <<7686>>),
  Object(337, "Default Binary", 335, HasEncoding, 76),
  Links(337, HasDescription, <<7689>>),
  Object(343, "Default Binary", 341, HasEncoding, 76) >>

P4_SoftwareCertificate_Encoding_DefaultBinary_References == <<
  Links(343, HasDescription, <<7695>>),
  Object(585, "Default Binary", 583, HasEncoding, 76),
  Links(585, HasDescription, <<7929>>),
  Object(588, "Default Binary", 586, HasEncoding, 76),
  Links(588, HasDescription, <<7932>>),
  Object(591, "Default Binary", 589, HasEncoding, 76),
  Links(591, HasDescription, <<7935>>),
  Object(594, "Default Binary", 592, HasEncoding, 76),
  Links(594, HasDescription, <<7938>>),
  Object(597, "Default Binary", 595, HasEncoding, 76),
  Links(597, HasDescription, <<7941>>) >>

P4_AttributeOperand_Encoding_DefaultBinary == <<
  Object(600, "Default Binary", 598, HasEncoding, 76),
  Links(600, HasDescription, <<7944>>),
  Object(603, "Default Binary", 601, HasEncoding, 76),
  Links(603, HasDescription, <<7947>>),
  Object(661, "Default Binary", 659, HasEncoding, 76),
  Links(661, HasDescription, <<8004>>),
  Object(721, "Default Binary", 719, HasEncoding, 76),
  Links(721, HasDescription, <<8067>>),
  Object(727, "Default Binary", 725, HasEncoding, 76),
  Links(727, HasDescription, <<8073>>),
  Object(950, "Default Binary", 948, HasEncoding, 76) >>

P4_AggregateConfiguration_Encoding_DefaultBinary_References == <<
  Links(950, HasDescription, <<8076>>),
  Object(922, "Default Binary", 920, HasEncoding, 76),
  Links(922, HasDescription, <<8172>>) >>

(* The stretches of the function. *)
CreateAddressSpacePart4 == <<P4_ExpandedNodeId, P4_ApplicationInstanceCertificate,
  P4_RegisteredServer, P4_X509IdentityToken, P4_AttributeWriteMask, P4_ComplianceLevel,
  P4_ContentFilter, P4_PerformUpdateType,
  P4_UserTokenPolicy_Encoding_DefaultXml_References,
  P4_UserNameIdentityToken_Encoding_DefaultXml,
  P4_DeleteNodesItem_Encoding_DefaultXml_References, P4_ContentFilter_Encoding_DefaultXml,
  P4_SimpleAttributeOperand_Encoding_DefaultXml_References,
  P4_ApplicationDescription_Encoding_DefaultBinary,
  P4_UserIdentityToken_Encoding_DefaultBinary_References,
  P4_AddReferencesItem_Encoding_DefaultBinary,
  P4_SoftwareCertificate_Encoding_DefaultBinary_References,
  P4_AttributeOperand_Encoding_DefaultBinary,
  P4_AggregateConfiguration_Encoding_DefaultBinary_References>>
==============================================================================
