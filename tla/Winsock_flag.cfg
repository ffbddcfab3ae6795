\* WSAStartup succeeding (0) or failing (WSASYSNOTREADY, 10091).
CONSTANTS
    StartupResults = {0, 10091}
SPECIFICATION Spec
INVARIANT BalancedStartup
\* The process ends after the destructor.
CHECK_DEADLOCK FALSE
