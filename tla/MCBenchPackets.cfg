\* Whose packets does a result of the SSH benchmark count?
SPECIFICATION Spec
CONSTANTS
    Selected <- OnlySSH
    Commands = 2
    MaxLag = 1
INVARIANT
    PacketsNotFromLaterModes
