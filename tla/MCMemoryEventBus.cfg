CONSTANTS
  m1 = m1
  m2 = m2
  m3 = m3
  c1 = c1
  c2 = c2
  Nothing = Nothing
  Messages <- MCMessages
  Consumers <- MCConsumers
  SubjectOf <- MCSubjectOf
  MaxRetries = 3
SPECIFICATION MemSpec
 
PROPERTIES MemImplementsContract EventuallyHandled
