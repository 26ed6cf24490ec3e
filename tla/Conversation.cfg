CONSTANTS
    r1 = r1  r2 = r2  h1 = h1  h2 = h2  a = a  b = b
    Name = {a, b}
    Call = {r1, r2}
    Handler = {h1, h2}
    Who <- MCWho
    MaxChats = 2
    RedisMayFail = TRUE
    MySQLMayFail = TRUE
SPECIFICATION FairConversationSpec
INVARIANTS ConversationTypeOK TwinsOverlapped CreatedOnlyIfNone MessagesHaveMembers MessageBetweenUsers
PROPERTIES EventuallyKnown
CHECK_DEADLOCK FALSE
