CONSTANTS
    ann = ann
    bob = bob
    astronomy = astronomy
    planet = planet
    star = star
    r1 = r1
    None = None
    Accounts = {ann, bob}
    Categories = {astronomy}
    Astronomy = astronomy
    Commands = {planet, star}
    Default <- MCDefault
    MaxScore = 5
    MaxWon = 1
    Requests = {r1}
SPECIFICATION Spec
INVARIANTS
    TypeOK
    RecordConsistent
    CommandsOwn
    PointsEarned
PROPERTIES
    OnlyRegistrationCreates
CHECK_DEADLOCK FALSE
SYMMETRY Players
