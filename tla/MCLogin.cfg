SPECIFICATION FairSpec
CONSTANTS
    Attempts = {1, 2, 3}
    Endpoints = {"admin_login", "register"}
    Ips = {1}
    Spellings = {"al", "Al", "bo"}
    Normal <- MCNormal
    Accounts <- MCAccounts
    IPLimit = 1
    IPWindow = 1
    PairLimit = 1
    PairWindow = 3
    BcryptConcurrent = 1
    TokenLife = 1
    MaxTime = 3
INVARIANT LimitsHold
PROPERTY LoginAnswered
CHECK_DEADLOCK FALSE
