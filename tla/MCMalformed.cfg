SPECIFICATION Spec
CONSTANTS
    Videos = {"v1"}
    Ids <- MCIds
    Nameable <- MCNameable
    EventId <- MCEventId
    Details <- MCDetails
    Known <- MCKnown
INVARIANTS MalformedNeverRaised
