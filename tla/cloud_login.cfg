CONSTANTS
    ann = ann
    astronomy = astronomy
    planet = planet
    star = star
    r1 = r1
    None = None
    Accounts = {ann}
    Categories = {astronomy}
    Astronomy = astronomy
    Commands = {planet, star}
    Default <- MCDefault
    MaxScore = 5
    MaxWon = 1
    Requests = {r1}
SPECIFICATION FairSpec
PROPERTIES
    LoginGetsIn
CHECK_DEADLOCK FALSE
