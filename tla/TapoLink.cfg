SPECIFICATION FairSpec
INVARIANTS
  TypeOK
  AnsweredExactlyOnce
  FailureIsThePlugs
PROPERTY
  ReadingsKeepComing PollsEnd
