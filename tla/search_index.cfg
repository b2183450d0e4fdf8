SPECIFICATION MCSpec
CONSTANTS
    owner = owner
    q1 = q1
    q2 = q2
    Session = {s1}
    Server = {owner}
    Owner = owner
    Request = {q1, q2}
    ServerOf <- Home
    Builder = Builder
    None = None
    MaxVersion = 2
    MaxAccidents = 1
    MaxChanges = 2
    MaxUploads = 1
INVARIANTS DocumentsVouched AnswerMatchesViews AnswerIsCurrent
PROPERTIES AnswersSettle
