\* Two rounds of open/read/write-or-clear over every old content, with
\* failing syscalls and crashes between them.
CONSTANTS
    CookieSize = 2
    CookieBytes = {"x", "y"}
    Digits = {"1", "2"}
    Host <- MCHost
    Hole = "0"
    OldContents <- MCOldContents
    AddrTexts <- MCAddrTexts
    MaxRounds = 2
SPECIFICATION Spec
INVARIANT RoundTrip
INVARIANT ExtractCorrect
\* The owner of the handle stops after its last round.
CHECK_DEADLOCK FALSE
