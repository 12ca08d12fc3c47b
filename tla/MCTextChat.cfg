SPECIFICATION ChatSpec
CONSTANTS
    MaxTryTimes = 1
    ResendWait = 0
    MaxMids = 2
    Texts = {t1, t2}
    MaxMishaps = 1
    NoText = NoText
INVARIANTS
    ChatTypeOK
    ConfirmationHasCause
PROPERTIES
    NoSilentLoss
    ImplementsConversation
