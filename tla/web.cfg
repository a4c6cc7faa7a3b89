SPECIFICATION FairSpec
CONSTANTS
  Guests = {guest1}
  Members = {member1}
  Contents = {c1, c2}
  None = None
  Risks = {}
  MaxEdits = 2
  MaxRequests = 1
INVARIANTS OwnPage
PROPERTIES AnswersCurrent Settles
