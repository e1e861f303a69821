---------------------- MODULE StandardAddressSpacePart13 ----------------------
(* The calls of CreateAddressSpacePart13, in their order: the nodes and references of
   part 13 of the OPC UA specification that the server adds to its address space when
   it starts. A definition is a stretch of the function, named for its first node; of a
   node's attributes only those that the address space or a property reads are kept. *)
EXTENDS StandardCalls

P13_AggregateConfigurationType == <<
  ObjectType(11187, "AggregateConfigurationType", 58, HasSubtype),
  Links(11187, HasProperty, <<11188, 11189, 11190, 11191>>),
  Variable(11188, "TreatUncertainAsBad", 11187, HasProperty, 68, 1),
  Links(11188, HasModellingRule, <<78>>),
  Variable(11189, "PercentDataBad", 11187, HasProperty, 68, 3),
  Links(11189, HasModellingRule, <<78>>),
  Variable(11190, "PercentDataGood", 11187, HasProperty, 68, 3),
  Links(11190, HasModellingRule, <<78>>),
  Variable(11191, "UseSlopedExtrapolation", 11187, HasProperty, 68, 1) >>

P13_AggregateConfigurationType_UseSlopedExtrapolation_References == <<
  Links(11191, HasModellingRule, <<78>>),
  Object(2341, "Interpolative", 0, None, 2340),
  Object(2342, "Average", 0, None, 2340),
  Object(2343, "TimeAverage", 0, None, 2340),
  Object(11285, "TimeAverage2", 0, None, 2340),
  Object(2344, "Total", 0, None, 2340),
  Object(11304, "Total2", 0, None, 2340),
  Object(2346, "Minimum", 0, None, 2340),
  Object(2347, "Maximum", 0, None, 2340),
  Object(2348, "MinimumActualTime", 0, None, 2340) >>

P13_AggregateFunction_MaximumActualTime == <<
  Object(2349, "MaximumActualTime", 0, None, 2340),
  Object(2350, "Range", 0, None, 2340),
  Object(11286, "Minimum2", 0, None, 2340),
  Object(11287, "Maximum2", 0, None, 2340),
  Object(11305, "MinimumActualTime2", 0, None, 2340),
  Object(11306, "MaximumActualTime2", 0, None, 2340),
  Object(11288, "Range2", 0, None, 2340),
  Object(2351, "AnnotationCount", 0, None, 2340),
  Object(2352, "Count", 0, None, 2340),
  Object(11307, "DurationInStateZero", 0, None, 2340) >>

P13_AggregateFunction_DurationInStateNonZero == <<
  Object(11308, "DurationInStateNonZero", 0, None, 2340),
  Object(2355, "NumberOfTransitions", 0, None, 2340),
  Object(2357, "Start", 0, None, 2340),
  Object(2358, "End", 0, None, 2340),
  Object(2359, "Delta", 0, None, 2340),
  Object(11505, "StartBound", 0, None, 2340),
  Object(11506, "EndBound", 0, None, 2340),
  Object(11507, "DeltaBounds", 0, None, 2340),
  Object(2360, "DurationGood", 0, None, 2340),
  Object(2361, "DurationBad", 0, None, 2340) >>

P13_AggregateFunction_PercentGood == <<
  Object(2362, "PercentGood", 0, None, 2340),
  Object(2363, "PercentBad", 0, None, 2340),
  Object(2364, "WorstQuality", 0, None, 2340),
  Object(11292, "WorstQuality2", 0, None, 2340),
  Object(11426, "StandardDeviationSample", 0, None, 2340),
  Object(11427, "StandardDeviationPopulation", 0, None, 2340),
  Object(11428, "VarianceSample", 0, None, 2340),
  Object(11429, "VariancePopulation", 0, None, 2340) >>

(* The stretches of the function. *)
CreateAddressSpacePart13 == <<P13_AggregateConfigurationType,
  P13_AggregateConfigurationType_UseSlopedExtrapolation_References,
  P13_AggregateFunction_MaximumActualTime, P13_AggregateFunction_DurationInStateNonZero,
  P13_AggregateFunction_PercentGood>>
===============================================================================
