SPECIFICATION FairSpec
CONSTANTS
    a = a
    b = b
    c = c
    x = x
    t = t
    c1 = c1
    c2 = c2
    Vertex = {a, b, c}
    Type = {"type"}
    Name = {x}
    Tag = {t}
    Client = {c1, c2}
    Calls <- OwnLinks
    None = None
    MaxGen = 3
INVARIANTS TypeOK KeysAgree NamesAreUsed NamesAreUnique
PROPERTIES AnswerMeansDone CallsAreAnswered
