SPECIFICATION FairSpec
CONSTANTS
    ann = ann  bob = bob
    jan = jan  feb = feb  mar = mar
    Users = {ann, bob}
    NoUser = NoUser
    KeysOf <- MCKeysOf
    MaxAttempts = 2
    NoRun = NoRun
    NoError = NoError
INVARIANTS TypeOK NothingForgotten ErrorVisible UsersApart
PROPERTIES FlushAttemptsAll Synchronizes
