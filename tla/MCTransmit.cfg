\* Two questions after each other over two server slots.  There is one id, so
\* that late answers to the first question always have the id of the second.
SPECIFICATION FairSpec
CONSTANTS
  NSlots = 2
  Question = {q1, q2}
  Id = {i1}
  QueryLen = 2
  PacketLens = {0, 2}
  MaxStarts = 2
  None = None
INVARIANTS Ownership AnswerFits QueryWritten FairToServers
PROPERTIES Terminates
