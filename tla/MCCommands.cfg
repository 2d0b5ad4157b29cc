SPECIFICATION Spec
CONSTANTS
    Users = {u1}
    Outside = {x}
    Keys = {"gain_db"}
    Clamped = {"gain_db"}
    Top = 1
    Requested = {0, 2}
    Capacity = 1
    Backlog = 1
    OfflineThreshold = 2
    UserNames = {"SET"}
    MaxFaults = 2
INVARIANTS AckMeansExecuted RepeatsOnlyWhenForgotten ConfirmedWasHeld
PROPERTY StoreConverges
