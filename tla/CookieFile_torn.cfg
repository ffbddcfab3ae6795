\* A write cut short by a failing write_all or a crash, read by the next
\* CookieFile::open.
CONSTANTS
    CookieSize = 2
    CookieBytes = {"x", "y"}
    Digits = {"1", "2"}
    Host <- MCHost
    Hole = "0"
    OldContents <- MCOldContents
    AddrTexts <- MCAddrTexts
    MaxRounds = 2
SPECIFICATION Spec
INVARIANT TornWriteIsNoRecord
\* The owner of the handle stops after its last round.
CHECK_DEADLOCK FALSE
