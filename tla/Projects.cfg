SPECIFICATION FairSpec
CONSTANTS
    User = {"mia", "sam"}
    Member = {"mia"}
    Manager = {"mia"}
    Name = {"old", "new"}
    NoName = NoName
    Description = {NoDescription, "text"}
    NoDescription = NoDescription
    Request = {r1, r2}
    Orders <- AllOrders
    Events = {"rename", "delete", "revoke", "lost"}
    MaxEvents = 2
INVARIANTS TypeOK DescriptionIsKept
PROPERTIES OnlyStaleAnswersSpoil DeletionReachesRow
