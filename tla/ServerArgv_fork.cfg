\* Two homes, one lib, both ephemeral settings.
CONSTANTS
    Homes = {"/h1", "/h2"}
    Libs = {"/lib"}
SPECIFICATION Spec
INVARIANT ChildGetsParentContext
\* The child exits or serves after parsing its arguments.
CHECK_DEADLOCK FALSE
