SPECIFICATION Spec
CONSTANTS
    person = person
    guest = guest
    People = {person}
    Guests = {guest}
    Orders <- MCOrders
    Settings <- MCSettings
    Workers = 2
    Links = {"review"}
INVARIANT UpToDate
INVARIANT GrantKept
PROPERTY ChangesAuthorized
PROPERTY RevokedLeave
CHECK_DEADLOCK FALSE
