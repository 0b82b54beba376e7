SPECIFICATION Spec
VIEW View
CONSTANTS
    NorecCode = 100
    VarlenSize = 4
    HostVars  <- MCHostVars
    Numbers   <- MCNumbers
    Texts     <- MCTexts
    Residues  <- MCResidues
    Followers <- MCFollowers
PROPERTIES ReadsAreFaithful WritesAreFaithful
\* A crash of the process ends a behaviour.
CHECK_DEADLOCK FALSE
