SPECIFICATION FairSpec
CONSTANTS
    Videos = {"v1"}
    Ids <- MCIds
    Nameable <- MCNameable
    EventId <- MCEventId
    Details <- MCDetails
    Known <- MCKnown
INVARIANTS TypeOK StoresAreWhole OwnEventsAreTaken TakenAlike
PROPERTY Answered
